---- MODULE Spec2Model ----
(***************************************************************************)
(* Request pipeline of the FastAPI service: the ASGI stack built by        *)
(* main.py (ServerErrorMiddleware carrying general_exception_handler,      *)
(* CorrelationMiddleware, RequestLoggingMiddleware, ExceptionMiddleware    *)
(* carrying the HTTP/validation handlers, the route handler), the two      *)
(* context variables of src/core/logging.py, and the log sink.             *)
(*                                                                         *)
(* Every request runs in its own asyncio task (Outer).  BaseHTTPMiddleware *)
(* runs dispatch() in the task of its caller and call_next() starts the    *)
(* wrapped application in a child task whose context is a copy of the      *)
(* caller's context at that moment: the task LoggingTask runs what         *)
(* CorrelationMiddleware wraps, the task AppTask runs what                 *)
(* RequestLoggingMiddleware wraps.                                         *)
(***************************************************************************)
EXTENDS Integers, Sequences, FiniteSets, TLC

\* ---------------------------------------------------------------- bounds
NumReqs == 2
MaxClock == 1

Reqs == 1..NumReqs

\* ---------------------------------------------------------------- values
\* Python's None: a header that is absent, a context variable that is unset.
None == "None"
\* What a client sends in X-Correlation-ID and in X-Request-ID: nothing, the empty
\* value, an identifier.
CorrelationHeaderValues == {None, "", "abc"}
RequestHeaderValues == {None, "", "xyz"}

OuterTask == 0
LoggingTask == 1
AppTask == 2
Tasks == Reqs \X {OuterTask, LoggingTask, AppTask}

\* default=None of both ContextVars
ContextDefault == [correlation_id |-> None, request_id |-> None]

VARIABLES
    pc,          \* position of each request in the middleware stack
    headers,     \* inbound headers of each request
    state,       \* request.state (scope["state"]) of each request
    ctx,         \* correlation_id_context / request_id_context in each task
    log,         \* records emitted to the sink on behalf of each request
    clock,       \* time.perf_counter()
    uuids,       \* number of uuid.uuid4() calls made so far
    start_time,  \* local start_time of RequestLoggingMiddleware.dispatch
    result,      \* what is travelling up the stack: a response or an exception
    client,      \* the response the client received
    downstream,  \* what the application wrapped by RequestLoggingMiddleware returned or raised
    binds,       \* bind_context_vars calls of each request
    clears       \* clear_context_vars calls of each request

vars == <<pc, headers, state, ctx, log, clock, uuids, start_time, result, client,
          downstream, binds, clears>>

\* Requests to the API-key protected route and to a failing route, seen by
\* RequestLoggingMiddleware with their Authorization and X-API-Key headers
VARIABLES
    auth_pc,        \* position of each such request
    auth_request,   \* its path and the two headers
    auth_log,       \* the records emitted for it
    auth_response   \* the status it was answered with, or the exception raised

authVars == <<auth_pc, auth_request, auth_log, auth_response>>

\* One request timed by RequestLoggingMiddleware, the clock read in microseconds
VARIABLES
    perf_counter,    \* time.perf_counter(), in microseconds
    time_pc,         \* position of the request in dispatch
    time_start,      \* start_time
    time_end,        \* the reading taken when call_next returned or raised
    time_response,   \* the response returned, the exception raised
    time_log         \* the completion or failure record

timeVars == <<perf_counter, time_pc, time_start, time_end, time_response, time_log>>

\* Requests to GET /items/{item_id} and POST /items/
VARIABLES
    items_pc,        \* position of each such request
    items_request,   \* its route and validated parameters
    items_response   \* what the client is answered

itemsVars == <<items_pc, items_request, items_response>>

\* The scheduled_tasks table and the clients listing it
VARIABLES
    utcnow,            \* datetime.utcnow()
    scheduled_tasks,   \* the rows of scheduled_tasks, in insertion order
    task_id_seq,       \* the last id the table's sequence gave out
    api_request,       \* the last API operation on the store and its arguments
    api_response,      \* the response to it
    pages_seen         \* pages a client fetched since the last write, by query

tasksVars == <<utcnow, scheduled_tasks, task_id_seq, api_request, api_response, pages_seen>>

\* The workflows and workflow_executions tables
VARIABLES
    workflows,                   \* the rows of workflows
    workflow_id_seq,             \* the last id the table's sequence gave out
    workflow_executions,         \* the rows of workflow_executions
    workflow_execution_id_seq    \* the last id the table's sequence gave out

workflowVars == <<workflows, workflow_id_seq, workflow_executions, workflow_execution_id_seq>>

\* The webhook_inbox table
VARIABLES
    webhook_inbox,    \* the rows of webhook_inbox, in insertion order
    webhook_id_seq    \* the last id the table's sequence gave out

webhookVars == <<webhook_inbox, webhook_id_seq>>

\* The process from the import of main.py on, and what it writes to stdout
VARIABLES
    environment,       \* settings.environment
    main_pc,           \* position in main.py
    handlers,          \* the handlers of Loguru's core, shared by every logger object
    logging_logger,    \* the global `logger` of src.core.logging
    module_logger,     \* the `logger` of each module that called get_logger()
    logging_context,   \* correlation_id_context / request_id_context where a record is emitted
    stdout             \* each record emitted so far with what reached sys.stdout

loggingVars == <<environment, main_pc, handlers, logging_logger, module_logger,
                 logging_context, stdout>>

\* Concurrent requests that create or rename workflows
VARIABLES
    wf_pc,          \* position of each such request in its handler
    wf_request,     \* what it asked for, with what its handler has read so far
    wf_response     \* what the client is answered

namesVars == <<wf_pc, wf_request, wf_response>>

\* The task_executions table
VARIABLES
    task_executions,         \* the rows of task_executions
    task_execution_id_seq    \* the last id the table's sequence gave out

executionVars == <<task_executions, task_execution_id_seq>>

\* get_db, one session per request
VARIABLES
    db_pc,          \* per request: where get_db stands
    db_session,     \* per request: "none", "open" or "closed"
    db_tx,          \* per request: the session's transaction
    db_exc,         \* per request: the exception in flight inside get_db
    db_raised,      \* per request: what the handler or the commit raised
    db_propagated   \* per request: what get_db let out

sessionVars == <<db_pc, db_session, db_tx, db_exc, db_raised, db_propagated>>

\* The api_logs table and GET /api-logs/stats/summary
VARIABLES
    stats_utcnow,     \* datetime.utcnow(), in half days
    api_logs,         \* the rows of api_logs, in insertion order
    stats_request,    \* the last request on the table
    stats_response    \* and its answer

statsVars == <<stats_utcnow, api_logs, stats_request, stats_response>>

\* What an action of one part of the service leaves alone
outsidePipeline == <<authVars, timeVars, itemsVars, tasksVars, workflowVars, webhookVars, loggingVars, namesVars, executionVars, sessionVars, statsVars>>
outsideAuth == <<vars, timeVars, itemsVars, tasksVars, workflowVars, webhookVars, loggingVars, namesVars, executionVars, sessionVars, statsVars>>
outsideTime == <<vars, authVars, itemsVars, tasksVars, workflowVars, webhookVars, loggingVars, namesVars, executionVars, sessionVars, statsVars>>
outsideItems == <<vars, authVars, timeVars, tasksVars, workflowVars, webhookVars, loggingVars, namesVars, executionVars, sessionVars, statsVars>>
outsideTasks == <<vars, authVars, timeVars, itemsVars, workflowVars, webhookVars, loggingVars, namesVars, executionVars, sessionVars, statsVars>>
outsideStore == <<vars, authVars, timeVars, itemsVars, webhookVars, loggingVars, namesVars, executionVars, sessionVars, statsVars>>
outsideWebhooks == <<vars, authVars, timeVars, itemsVars, workflowVars, loggingVars, namesVars, executionVars, sessionVars, statsVars>>
outsideLogging == <<vars, authVars, timeVars, itemsVars, tasksVars, workflowVars, webhookVars, namesVars, executionVars, sessionVars, statsVars>>
outsideNames == <<vars, authVars, timeVars, itemsVars, tasksVars, webhookVars, loggingVars, executionVars, sessionVars, statsVars>>
outsideExecutions == <<vars, authVars, timeVars, itemsVars, workflowVars, webhookVars, loggingVars, namesVars, sessionVars, statsVars>>
outsideSession == <<vars, authVars, timeVars, itemsVars, tasksVars, workflowVars, webhookVars, loggingVars, namesVars, executionVars, statsVars>>
outsideStats == <<vars, authVars, timeVars, itemsVars, tasksVars, workflowVars, webhookVars, loggingVars, namesVars, executionVars, sessionVars>>

\* ---------------------------------------------------------------- helpers
\* An optional value that is not a string (float | None, ...): <<>> is None,
\* <<x>> is the value x
Some(x) == <<x>>
Nothing == <<>>

\* Python truthiness of str | None
Truthy(v) == v # None /\ v # ""

\* request.headers.get(name, default)
HeadersGet(h, name, default) == IF h[name] = None THEN default ELSE h[name]

\* str(uuid.uuid4()) for the n-th call: a fresh identifier
Uuid4(n) == "uuid-" \o ToString(n)

\* ContextVar.set / ContextVar.get in task t
ContextVarSet(c, t, var, val) == [c EXCEPT ![t][var] = val]
ContextVarGet(c, t, var) == c[t][var]

\* (variant: bind_context_vars without the truthiness tests)
bind_context_vars_always(c, t, correlation_id, request_id) ==
    ContextVarSet(ContextVarSet(c, t, "correlation_id", correlation_id),
                  t, "request_id", request_id)

bind_context_vars(c, t, correlation_id, request_id) ==
    LET c1 == IF Truthy(correlation_id)
              THEN ContextVarSet(c, t, "correlation_id", correlation_id) ELSE c
    IN  IF Truthy(request_id) THEN ContextVarSet(c1, t, "request_id", request_id) ELSE c1

clear_context_vars(c, t) ==
    ContextVarSet(ContextVarSet(c, t, "correlation_id", None), t, "request_id", None)

\* A task started by call_next runs in a copy of its parent's context.
CopyContext(c, parent, child) == [c EXCEPT ![child] = c[parent]]

\* What serialize_record / format_record_dev read when a record is emitted in task t,
\* joined with the event and the keyword arguments of the log call.
LogRecord(c, t, event, extra) ==
    [event |-> event,
     correlation_id |-> ContextVarGet(c, t, "correlation_id"),
     request_id |-> ContextVarGet(c, t, "request_id"),
     extra |-> extra]

\* getattr(request.state, name, None)
StateGet(s, name) == s[name]

\* Exceptions and the classes the stack tests them against (status_code is 0 for
\* an exception class that has none)
HTTPException(status, detail) ==
    [type |-> "HTTPException", status_code |-> status, detail |-> detail]
RequestValidationError ==
    [type |-> "RequestValidationError", status_code |-> 0, detail |-> "validation errors"]
ZeroDivisionError ==
    [type |-> "ZeroDivisionError", status_code |-> 0, detail |-> "division by zero"]
IntegrityError ==
    [type |-> "IntegrityError", status_code |-> 0,
     detail |-> "null value violates not-null constraint"]
ResponseValidationError ==
    [type |-> "ResponseValidationError", status_code |-> 0, detail |-> "response validation"]
ValidationError ==
    [type |-> "ValidationError", status_code |-> 0,
     detail |-> "Input should be a valid dictionary"]
UnicodeDecodeError ==
    [type |-> "UnicodeDecodeError", status_code |-> 0, detail |-> "invalid start byte"]
CancelledError ==
    [type |-> "CancelledError", status_code |-> 0, detail |-> ""]

\* isinstance(e, Exception): asyncio.CancelledError derives from BaseException only
IsException(e) == e.type # "CancelledError"
\* The classes ExceptionMiddleware has a handler for (main.py: every handler but Exception's)
IsHandledHTTP(e) == e.type \in {"HTTPException", "RequestValidationError"}

\* Headers of a response as the handler or exception handler built it (a
\* JSONResponse): none of the three the middlewares add
NoHeaders == [ContentType |-> "application/json",
              XCorrelationID |-> None, XRequestID |-> None, XProcessTime |-> None]

Response(status, body) == [kind |-> "response", status_code |-> status, body |-> body,
                           headers |-> NoHeaders]
Raise(e) == [kind |-> "raise", exc |-> e]
NoResult == [kind |-> "none"]

\* loguru: the logger object the package exports, with no patcher, and the
\* handler its core starts with (sys.stderr)
LoguruLogger == [patcher |-> None]
DefaultHandler == [sink |-> "stderr", format |-> "default", serialize |-> FALSE, level |-> "DEBUG"]

\* The modules that keep a `logger = get_logger()` of their own
Modules == {"request_logging", "exception_handlers", "main"}

\* No page fetched yet
NoPages == [query |-> <<>>, pages |-> <<>>]

\* No request received yet
NoRequest == [path |-> None, Authorization |-> None, XAPIKey |-> None]

\* JSONResponse of the exception handlers
ErrorEnvelope(status, detail, s) ==
    Response(status, [detail |-> detail,
                      correlation_id |-> StateGet(s, "correlation_id"),
                      request_id |-> StateGet(s, "request_id")])

\* --- CorrelationMiddleware.dispatch: resolution of the two identifiers.
\* n is the number of uuid4() calls made before the one in hand.
CorrelationIdFromHeaders(h) ==
    LET c == HeadersGet(h, "XCorrelationID", None)
    IN  IF ~Truthy(c) THEN HeadersGet(h, "XRequestID", None) ELSE c

UuidCallsForCorrelationId(h) == IF ~Truthy(CorrelationIdFromHeaders(h)) THEN 1 ELSE 0

ResolveCorrelationId(h, n) ==
    IF ~Truthy(CorrelationIdFromHeaders(h)) THEN Uuid4(n + 1) ELSE CorrelationIdFromHeaders(h)

\* The default argument str(uuid.uuid4()) is evaluated whether it is used or not.
ResolveRequestId(h, n) == HeadersGet(h, "XRequestID", Uuid4(n + 1))

\* --- RequestLoggingMiddleware.dispatch
StartRecord(c, r, s) ==
    LogRecord(c, <<r, LoggingTask>>, "Request started",
              [correlation_id |-> StateGet(s, "correlation_id"),
               request_id |-> StateGet(s, "request_id")])

\* (variant: the reading at completion, start_time not subtracted)
ProcessTimeNoStart(now, start) == now

\* time.perf_counter() - start_time
ProcessTime(now, start) == now - start

\* round(process_time * 1000, 2), the clock read in whole seconds
ProcessTimeMs(process_time) == process_time * 1000

CompletedRecord(c, r, res, process_time) ==
    LogRecord(c, <<r, LoggingTask>>, "Request completed",
              [status_code |-> res.status_code,
               process_time_ms |-> ProcessTimeMs(process_time)])

FailedRecord(c, r, e, process_time, s) ==
    LogRecord(c, <<r, LoggingTask>>, "Request failed with exception",
              [process_time_ms |-> ProcessTimeMs(process_time),
               correlation_id |-> StateGet(s, "correlation_id"),
               request_id |-> StateGet(s, "request_id"),
               exception_type |-> e.type])

\* (variant: the start record is not emitted before call_next)
RequestLoggingStartDeferred(c, r, s) == <<>>

\* logger.info("Request started", **request_data) before call_next
RequestLoggingStartRecords(c, r, s) == <<StartRecord(c, r, s)>>

\* (variant: an except clause that logs reportable errors only)
RequestLoggingRecordsHTTPOnly(c, r, res, process_time, s) ==
    IF res.kind = "response" THEN <<CompletedRecord(c, r, res, process_time)>>
    ELSE IF IsHandledHTTP(res.exc) THEN <<FailedRecord(c, r, res.exc, process_time, s)>>
    ELSE <<>>

\* The records dispatch emits once call_next has returned res or raised res.exc:
\* the try body logs the completion, `except Exception` logs the failure.
RequestLoggingRecords(c, r, res, process_time, s) ==
    IF res.kind = "response" THEN <<CompletedRecord(c, r, res, process_time)>>
    ELSE IF IsException(res.exc) THEN <<FailedRecord(c, r, res.exc, process_time, s)>>
    ELSE <<>>

\* (variant: the except block answers with a response instead of raising)
SwallowIntoResponse(res) ==
    IF IsException(res.exc) THEN Response(500, [detail |-> res.exc.detail]) ELSE res

\* The bare `raise` of the except block: the exception caught is the one raised.
Reraise(res) == res

\* What dispatch hands to its caller: the response with X-Process-Time, or the
\* exception.
RequestLoggingResult(res, process_time) ==
    IF res.kind = "response"
    THEN [res EXCEPT !.headers.XProcessTime = process_time]
    ELSE Reraise(res)

\* (variant: the middleware also writes the IDs into the body)
CorrelationResultInBody(res, s) ==
    IF res.kind = "response"
    THEN [res EXCEPT !.headers.XCorrelationID = s.correlation_id,
                     !.headers.XRequestID = s.request_id,
                     !.body = [correlation_id |-> s.correlation_id,
                               request_id |-> s.request_id]]
    ELSE res

\* --- CorrelationMiddleware.dispatch after call_next
CorrelationResult(res, s) ==
    IF res.kind = "response"
    THEN [res EXCEPT !.headers.XCorrelationID = s.correlation_id,
                     !.headers.XRequestID = s.request_id]
    ELSE res

\* (variant: the clear placed after the return instead of in a finally block)
CorrelationClearOnReturnOnly(c, r, res) ==
    IF res.kind = "response" THEN clear_context_vars(c, <<r, OuterTask>>) ELSE c

\* finally: clear_context_vars(), whatever left the try block
CorrelationFinally(c, r, res) == clear_context_vars(c, <<r, OuterTask>>)
CorrelationFinallyRuns(res) == 1

\* --- route handlers and exception handlers
HandlerRecord(c, r, event) == LogRecord(c, <<r, AppTask>>, event, [handler |-> TRUE])

http_exception_handler_log(c, r, e, s) ==
    LogRecord(c, <<r, AppTask>>, "HTTP exception occurred",
              [status_code |-> e.status_code,
               correlation_id |-> StateGet(s, "correlation_id"),
               request_id |-> StateGet(s, "request_id")])

\* (variant: the handler answers every reportable error with status 400)
http_exception_handler_always_400(e, s) == ErrorEnvelope(400, e.detail, s)

\* JSONResponse(status_code=exc.status_code, content={detail, correlation_id, request_id})
http_exception_handler(e, s) == ErrorEnvelope(e.status_code, e.detail, s)

validation_exception_handler_log(c, r, e, s) ==
    LogRecord(c, <<r, AppTask>>, "Validation error occurred",
              [errors |-> e.detail,
               correlation_id |-> StateGet(s, "correlation_id"),
               request_id |-> StateGet(s, "request_id")])

validation_exception_handler(e, s) == ErrorEnvelope(422, e.detail, s)

\* The handler ExceptionMiddleware picks for an exception it handles
ExceptionHandlerLog(c, r, e, s) ==
    IF e.type = "RequestValidationError" THEN validation_exception_handler_log(c, r, e, s)
    ELSE http_exception_handler_log(c, r, e, s)

ExceptionHandlerResponse(e, s) ==
    IF e.type = "RequestValidationError" THEN validation_exception_handler(e, s)
    ELSE http_exception_handler(e, s)

general_exception_handler_log(c, r, e, s) ==
    LogRecord(c, <<r, OuterTask>>, "Unhandled exception occurred",
              [exception_type |-> e.type,
               correlation_id |-> StateGet(s, "correlation_id"),
               request_id |-> StateGet(s, "request_id")])

\* (variant: the handler puts the exception's message in the body)
general_exception_handler_with_message(e, s) == ErrorEnvelope(500, e.detail, s)

\* JSONResponse(status_code=500, content={detail: "Internal server error", ...})
general_exception_handler(e, s) == ErrorEnvelope(500, "Internal server error", s)

\* ---------------------------------------------------------------- initial state
Init ==
    /\ pc = [r \in Reqs |-> "idle"]
    /\ headers = [r \in Reqs |-> [XCorrelationID |-> None, XRequestID |-> None]]
    /\ state = [r \in Reqs |-> [correlation_id |-> None, request_id |-> None]]
    /\ ctx = [t \in Tasks |-> ContextDefault]
    /\ log = [r \in Reqs |-> <<>>]
    /\ clock = 0
    /\ uuids = 0
    /\ start_time = [r \in Reqs |-> 0]
    /\ result = [r \in Reqs |-> NoResult]
    /\ client = [r \in Reqs |-> NoResult]
    /\ downstream = [r \in Reqs |-> NoResult]
    /\ binds = [r \in Reqs |-> 0]
    /\ clears = [r \in Reqs |-> 0]
    /\ auth_pc = [r \in Reqs |-> "idle"]
    /\ auth_request = [r \in Reqs |-> NoRequest]
    /\ auth_log = [r \in Reqs |-> <<>>]
    /\ auth_response = [r \in Reqs |-> NoResult]
    /\ perf_counter = 0
    /\ time_pc = "idle"
    /\ time_start = 0
    /\ time_end = 0
    /\ time_response = NoResult
    /\ time_log = <<>>
    /\ items_pc = [r \in Reqs |-> "idle"]
    /\ items_request = [r \in Reqs |-> [route |-> None]]
    /\ items_response = [r \in Reqs |-> NoResult]
    /\ utcnow = 0
    /\ scheduled_tasks = <<>>
    /\ task_id_seq = 0
    /\ api_request = [op |-> None]
    /\ api_response = NoResult
    /\ pages_seen = NoPages
    /\ workflows = <<>>
    /\ workflow_id_seq = 0
    /\ workflow_executions = <<>>
    /\ workflow_execution_id_seq = 0
    /\ webhook_inbox = <<>>
    /\ webhook_id_seq = 0
    /\ environment = None
    /\ main_pc = "import"
    /\ handlers = {DefaultHandler}
    /\ logging_logger = LoguruLogger
    /\ module_logger = [m \in Modules |-> Nothing]
    /\ logging_context = ContextDefault
    /\ stdout = <<>>
    /\ wf_pc = [r \in Reqs |-> "idle"]
    /\ wf_request = [r \in Reqs |-> [op |-> None]]
    /\ wf_response = [r \in Reqs |-> NoResult]
    /\ task_executions = <<>>
    /\ task_execution_id_seq = 0
    /\ db_pc = [r \in Reqs |-> "idle"]
    /\ db_session = [r \in Reqs |-> "none"]
    /\ db_tx = [r \in Reqs |-> "none"]
    /\ db_exc = [r \in Reqs |-> Nothing]
    /\ db_raised = [r \in Reqs |-> Nothing]
    /\ db_propagated = [r \in Reqs |-> Nothing]
    /\ stats_utcnow = 0
    /\ api_logs = <<>>
    /\ stats_request = [op |-> None]
    /\ stats_response = NoResult

\* ---------------------------------------------------------------- actions
\* The monotonic clock advances.
Tick ==
    /\ clock < MaxClock
    /\ clock' = clock + 1
    /\ UNCHANGED <<pc, headers, state, ctx, log, uuids, start_time, result, client,
                   downstream, binds, clears>>
    /\ UNCHANGED outsidePipeline

\* A request arrives with its headers; the server starts a task for it.
Receive(r, xc, xr) ==
    /\ pc[r] = "idle"
    /\ headers' = [headers EXCEPT ![r] = [XCorrelationID |-> xc, XRequestID |-> xr]]
    /\ pc' = [pc EXCEPT ![r] = "correlation"]
    /\ UNCHANGED <<state, ctx, log, clock, uuids, start_time, result, client,
                   downstream, binds, clears>>
    /\ UNCHANGED outsidePipeline

\* CorrelationMiddleware.dispatch up to `await call_next(request)`.
CorrelationDispatch(r) ==
    /\ pc[r] = "correlation"
    /\ LET correlation_id == ResolveCorrelationId(headers[r], uuids)
           n == uuids + UuidCallsForCorrelationId(headers[r])
           request_id == ResolveRequestId(headers[r], n)
           bound == bind_context_vars(ctx, <<r, OuterTask>>, correlation_id, request_id)
       IN  /\ uuids' = n + 1
           /\ state' = [state EXCEPT ![r] = [correlation_id |-> correlation_id,
                                             request_id |-> request_id]]
           /\ ctx' = CopyContext(bound, <<r, OuterTask>>, <<r, LoggingTask>>)
    /\ binds' = [binds EXCEPT ![r] = @ + 1]
    /\ pc' = [pc EXCEPT ![r] = "logging"]
    /\ UNCHANGED <<headers, log, clock, start_time, result, client, downstream, clears>>
    /\ UNCHANGED outsidePipeline

\* RequestLoggingMiddleware.dispatch up to `await call_next(request)`.
RequestLoggingDispatch(r) ==
    /\ pc[r] = "logging"
    /\ start_time' = [start_time EXCEPT ![r] = clock]
    /\ log' = [log EXCEPT ![r] = @ \o RequestLoggingStartRecords(ctx, r, state[r])]
    /\ ctx' = CopyContext(ctx, <<r, LoggingTask>>, <<r, AppTask>>)
    /\ pc' = [pc EXCEPT ![r] = "handler"]
    /\ UNCHANGED <<headers, state, clock, uuids, result, client, downstream, binds, clears>>
    /\ UNCHANGED outsidePipeline

\* The request fails FastAPI's validation: the handler body never runs.
ValidationFails(r) ==
    /\ pc[r] = "handler"
    /\ result' = [result EXCEPT ![r] = Raise(RequestValidationError)]
    /\ pc' = [pc EXCEPT ![r] = "exception_middleware"]
    /\ UNCHANGED <<headers, state, ctx, log, clock, uuids, start_time, client,
                   downstream, binds, clears>>
    /\ UNCHANGED outsidePipeline

\* A route handler logs and reaches its first suspension point
\* (database I/O, asyncio.sleep).
HandlerStart(r) ==
    /\ pc[r] = "handler"
    /\ log' = [log EXCEPT ![r] = Append(@, HandlerRecord(ctx, r, "handler started"))]
    /\ pc' = [pc EXCEPT ![r] = "await"]
    /\ UNCHANGED <<headers, state, ctx, clock, uuids, start_time, result, client,
                   downstream, binds, clears>>
    /\ UNCHANGED outsidePipeline

\* The handler resumes, logs and returns its payload.
HandlerReturn(r) ==
    /\ pc[r] = "await"
    /\ log' = [log EXCEPT ![r] = Append(@, HandlerRecord(ctx, r, "handler completed"))]
    /\ result' = [result EXCEPT ![r] = Response(200, [payload |-> r])]
    /\ pc' = [pc EXCEPT ![r] = "exception_middleware"]
    /\ UNCHANGED <<headers, state, ctx, clock, uuids, start_time, client,
                   downstream, binds, clears>>
    /\ UNCHANGED outsidePipeline

\* The handler resumes, logs and raises: a reportable HTTPException or any other
\* exception.
HandlerRaise(r, e) ==
    /\ pc[r] = "await"
    /\ log' = [log EXCEPT ![r] = Append(@, HandlerRecord(ctx, r, "handler failed"))]
    /\ result' = [result EXCEPT ![r] = Raise(e)]
    /\ pc' = [pc EXCEPT ![r] = "exception_middleware"]
    /\ UNCHANGED <<headers, state, ctx, clock, uuids, start_time, client,
                   downstream, binds, clears>>
    /\ UNCHANGED outsidePipeline

\* The request is cancelled while its handler is suspended.  The tasks started by
\* call_next are cancelled with it: the handler is abandoned at its await, and
\* `await call_next(request)` in RequestLoggingMiddleware.dispatch raises
\* CancelledError although the wrapped application neither returned nor raised.
Cancel(r) ==
    /\ pc[r] = "await"
    /\ result' = [result EXCEPT ![r] = Raise(CancelledError)]
    /\ pc' = [pc EXCEPT ![r] = "logging_exit"]
    /\ UNCHANGED <<headers, state, ctx, log, clock, uuids, start_time, client,
                   downstream, binds, clears>>
    /\ UNCHANGED outsidePipeline

\* ExceptionMiddleware: the handlers main.py registers for HTTPException,
\* StarletteHTTPException and RequestValidationError turn the exception into a
\* response; anything else propagates.
ExceptionMiddleware(r) ==
    /\ pc[r] = "exception_middleware"
    /\ IF result[r].kind = "raise" /\ IsHandledHTTP(result[r].exc)
       THEN /\ log' = [log EXCEPT ![r] =
                          Append(@, ExceptionHandlerLog(ctx, r, result[r].exc, state[r]))]
            /\ result' = [result EXCEPT ![r] = ExceptionHandlerResponse(@.exc, state[r])]
       ELSE UNCHANGED <<log, result>>
    /\ downstream' = [downstream EXCEPT ![r] = result'[r]]
    /\ pc' = [pc EXCEPT ![r] = "logging_exit"]
    /\ UNCHANGED <<headers, state, ctx, clock, uuids, start_time, client, binds, clears>>
    /\ UNCHANGED outsidePipeline

\* RequestLoggingMiddleware.dispatch after `await call_next(request)`.
RequestLoggingExit(r) ==
    /\ pc[r] = "logging_exit"
    /\ LET process_time == ProcessTime(clock, start_time[r])
       IN  /\ log' = [log EXCEPT ![r] =
                         @ \o RequestLoggingRecords(ctx, r, result[r], process_time, state[r])]
           /\ result' = [result EXCEPT ![r] = RequestLoggingResult(@, process_time)]
    /\ start_time' = [start_time EXCEPT ![r] = 0]
    /\ pc' = [pc EXCEPT ![r] = "correlation_exit"]
    /\ UNCHANGED <<headers, state, ctx, clock, uuids, client, downstream, binds, clears>>
    /\ UNCHANGED outsidePipeline

\* CorrelationMiddleware.dispatch after `await call_next(request)`, with its
\* finally block.
CorrelationExit(r) ==
    /\ pc[r] = "correlation_exit"
    /\ result' = [result EXCEPT ![r] = CorrelationResult(@, state[r])]
    /\ ctx' = CorrelationFinally(ctx, r, result[r])
    /\ clears' = [clears EXCEPT ![r] = @ + CorrelationFinallyRuns(result[r])]
    /\ pc' = [pc EXCEPT ![r] = "server_error_middleware"]
    /\ UNCHANGED <<headers, state, log, clock, uuids, start_time, client, downstream, binds>>
    /\ UNCHANGED outsidePipeline

\* ServerErrorMiddleware: sends the response, or calls the handler main.py
\* registers for Exception (general_exception_handler), sends its response and
\* re-raises.
ServerErrorMiddleware(r) ==
    /\ pc[r] = "server_error_middleware"
    /\ IF result[r].kind = "raise" /\ IsException(result[r].exc)
       THEN /\ log' = [log EXCEPT ![r] =
                          Append(@, general_exception_handler_log(ctx, r, result[r].exc, state[r]))]
            /\ client' = [client EXCEPT ![r] = general_exception_handler(result[r].exc, state[r])]
       ELSE /\ client' = [client EXCEPT ![r] =
                             IF result[r].kind = "response" THEN result[r] ELSE @]
            /\ UNCHANGED log
    /\ pc' = [pc EXCEPT ![r] = "done"]
    /\ UNCHANGED <<headers, state, ctx, clock, uuids, start_time, result, downstream,
                   binds, clears>>
    /\ UNCHANGED outsidePipeline

\* Exceptions a handler raises: one reportable, one not.
HandlerExceptions == {HTTPException(400, "Invalid item ID"), ZeroDivisionError}

Next ==
    \/ Tick
    \/ \E r \in Reqs, xc \in CorrelationHeaderValues, xr \in RequestHeaderValues :
          Receive(r, xc, xr)
    \/ \E r \in Reqs : CorrelationDispatch(r)
    \/ \E r \in Reqs : RequestLoggingDispatch(r)
    \/ \E r \in Reqs : ValidationFails(r)
    \/ \E r \in Reqs : HandlerStart(r)
    \/ \E r \in Reqs : HandlerReturn(r)
    \/ \E r \in Reqs, e \in HandlerExceptions : HandlerRaise(r, e)
    \/ \E r \in Reqs : Cancel(r)
    \/ \E r \in Reqs : ExceptionMiddleware(r)
    \/ \E r \in Reqs : RequestLoggingExit(r)
    \/ \E r \in Reqs : CorrelationExit(r)
    \/ \E r \in Reqs : ServerErrorMiddleware(r)

Spec == Init /\ [][Next]_vars

\* ---------------------------------------------------------------- properties
\* Positions of a request
Resolved(r) == pc[r] \notin {"idle", "correlation"}
InsideCorrelation(r) == pc[r] \in {"logging", "handler", "await", "exception_middleware",
                                    "logging_exit", "correlation_exit"}
LeftCorrelation(r) == pc[r] \in {"server_error_middleware", "done"}
LeftRequestLogging(r) == pc[r] \in {"correlation_exit", "server_error_middleware", "done"}
Answered(r) == client[r].kind = "response"

\* C1: every log record emitted while handling request r carries, as read from the
\* ambient context at emission, the correlation and request IDs resolved for r.
C1_LogsReadOwnIds ==
    \A r \in Reqs : \A i \in DOMAIN log[r] :
        /\ log[r][i].correlation_id = state[r].correlation_id
        /\ log[r][i].request_id = state[r].request_id

\* C2: clear_context_vars runs exactly once for the bind of a request, on every
\* exit path of CorrelationMiddleware.dispatch (response, exception, cancellation),
\* and not before; once dispatch has exited, both context variables of the
\* request's task read None.
C2_ClearedOnceOnEveryExit ==
    \A r \in Reqs :
        /\ InsideCorrelation(r) => binds[r] = 1 /\ clears[r] = 0
        /\ LeftCorrelation(r) =>
              /\ binds[r] = 1 /\ clears[r] = 1
              /\ ContextVarGet(ctx, <<r, OuterTask>>, "correlation_id") = None
              /\ ContextVarGet(ctx, <<r, OuterTask>>, "request_id") = None

\* Reached: a request that had bound both IDs and left dispatch by an exception,
\* and one that left it by cancellation.
C2_Witness ==
    \E r, q \in Reqs :
        /\ pc[r] = "done" /\ result[r] = Raise(ZeroDivisionError)
        /\ ctx[<<r, LoggingTask>>].correlation_id = "abc"
        /\ ctx[<<r, LoggingTask>>].request_id = "xyz"
        /\ clears[r] = 1
        /\ pc[q] = "done" /\ result[q] = Raise(CancelledError) /\ clears[q] = 1

\* C3: a request that supplies X-Correlation-ID: abc has abc as its resolved
\* correlation_id, and the response it receives carries X-Correlation-ID: abc,
\* whatever its X-Request-ID header is.
C3_CorrelationHeaderEchoed ==
    \A r \in Reqs :
        Truthy(headers[r].XCorrelationID) =>
            /\ Resolved(r) => state[r].correlation_id = headers[r].XCorrelationID
            /\ Answered(r) => client[r].headers.XCorrelationID = headers[r].XCorrelationID

\* C4: a request that supplies X-Request-ID: xyz and no X-Correlation-ID receives a
\* response whose X-Correlation-ID and X-Request-ID both equal xyz.
C4_RequestIdEchoedInBoth ==
    \A r \in Reqs :
        (headers[r].XCorrelationID = None /\ Truthy(headers[r].XRequestID) /\ Answered(r)) =>
            /\ client[r].headers.XCorrelationID = headers[r].XRequestID
            /\ client[r].headers.XRequestID = headers[r].XRequestID

\* The identifiers resolved so far, as (request, field, value)
ResolvedIds ==
    {<<r, f, state[r][f]>> : r \in {q \in Reqs : Resolved(q)},
                            f \in {"correlation_id", "request_id"}}

\* C5: a request that supplies neither header gets two generated identifiers, each
\* non-empty and used by no other request (nor for the other field), and the
\* response it receives carries them in X-Correlation-ID and X-Request-ID.
C5_GeneratedIdsFreshAndEchoed ==
    \A r \in Reqs :
        (Resolved(r) /\ headers[r].XCorrelationID = None /\ headers[r].XRequestID = None) =>
            /\ Truthy(state[r].correlation_id) /\ Truthy(state[r].request_id)
            /\ \A f \in {"correlation_id", "request_id"} : \A t \in ResolvedIds :
                  t[3] = state[r][f] => (t[1] = r /\ t[2] = f)
            /\ Answered(r) =>
                  /\ client[r].headers.XCorrelationID = state[r].correlation_id
                  /\ client[r].headers.XRequestID = state[r].request_id

\* C6: whatever the outcome, the response a client receives carries
\* X-Correlation-ID and X-Request-ID equal to the IDs resolved for its request.
C6_EveryResponseCarriesIds ==
    \A r \in Reqs :
        Answered(r) =>
            /\ client[r].headers.XCorrelationID = state[r].correlation_id
            /\ client[r].headers.XRequestID = state[r].request_id

\* Records of RequestLoggingMiddleware and of what it wraps
IsStart(rec) == rec.event = "Request started"
IsCompleted(rec) == rec.event = "Request completed"
IsFailed(rec) == rec.event = "Request failed with exception"
IsEnd(rec) == IsCompleted(rec) \/ IsFailed(rec)
IsDownstream(rec) == rec.event \in {"handler started", "handler completed", "handler failed",
                                    "HTTP exception occurred", "Validation error occurred"}
Count(lg, P(_)) == Cardinality({i \in DOMAIN lg : P(lg[i])})

\* C7: a request whose start record was emitted gets no completion or failure
\* record before the wrapped application has returned or raised; once it has and
\* dispatch has left, the log holds exactly one such record (the completion for a
\* response, the failure for an exception), never both, and its elapsed time is
\* not negative.
C7_ExactlyOneEndRecord ==
    \A r \in Reqs :
        /\ Count(log[r], IsEnd) <= 1
        /\ Count(log[r], IsEnd) = 1 => Count(log[r], IsStart) = 1 /\ LeftRequestLogging(r)
        /\ (LeftRequestLogging(r) /\ downstream[r].kind = "response") =>
              Count(log[r], IsCompleted) = 1
        /\ (LeftRequestLogging(r) /\ downstream[r].kind = "raise") =>
              Count(log[r], IsFailed) = 1
        /\ \A i \in DOMAIN log[r] :
              IsEnd(log[r][i]) => log[r][i].extra.process_time_ms >= 0

\* Reached: a failure record with a positive elapsed time, for a handler that
\* raised partway through.
C7_Witness ==
    \E r \in Reqs :
        /\ LeftRequestLogging(r)
        /\ downstream[r] = Raise(ZeroDivisionError)
        /\ \E i \in DOMAIN log[r] :
              IsFailed(log[r][i]) /\ log[r][i].extra.process_time_ms > 0

\* C8: for each request the start record is in the log before what the request
\* logger wraps begins; every record emitted downstream comes after the start
\* record and before the completion/failure record; and the completion/failure
\* record is in the log when control is back with the caller of dispatch.
C8_PerRequestOrdering ==
    \A r \in Reqs :
        /\ pc[r] = "handler" => Len(log[r]) = 1 /\ IsStart(log[r][1])
        /\ \A i \in DOMAIN log[r] :
              IsDownstream(log[r][i]) =>
                  /\ \E j \in 1..(i - 1) : IsStart(log[r][j])
                  /\ \A j \in 1..i : ~IsEnd(log[r][j])
        /\ \A i \in DOMAIN log[r] : IsStart(log[r][i]) => i = 1
        /\ (LeftRequestLogging(r) /\ downstream[r].kind # "none") =>
              \E i \in DOMAIN log[r] :
                  /\ IsEnd(log[r][i])
                  /\ \A j \in 1..(i - 1) : IsStart(log[r][j]) \/ IsDownstream(log[r][j])

\* Reached: one request with start, handler, exception-handler and completion
\* records in that order while another request is between its own start and end.
C8_Witness ==
    \E r, q \in Reqs :
        /\ r # q
        /\ Len(log[r]) = 5
        /\ IsStart(log[r][1]) /\ IsDownstream(log[r][2]) /\ IsDownstream(log[r][3])
        /\ log[r][4].event = "HTTP exception occurred" /\ IsCompleted(log[r][5])
        /\ pc[q] = "await" /\ Len(log[q]) = 2

\* C9: when the wrapped application raises into RequestLoggingMiddleware, the
\* middleware emits the failure record naming the exception's type and hands the
\* very same exception to its caller, never a response; it is that exception that
\* reaches ServerErrorMiddleware and its handler.
C9_FailureLoggedAndReraised ==
    \A r \in Reqs :
        (LeftRequestLogging(r) /\ downstream[r].kind = "raise") =>
            /\ result[r] = downstream[r]
            /\ \E i \in DOMAIN log[r] :
                  /\ IsFailed(log[r][i])
                  /\ log[r][i].extra.exception_type = downstream[r].exc.type
            /\ pc[r] = "done" =>
                  \E i \in DOMAIN log[r] :
                      /\ log[r][i].event = "Unhandled exception occurred"
                      /\ log[r][i].extra.exception_type = downstream[r].exc.type

\* Reached: the exception a handler raised is with ServerErrorMiddleware, after
\* the failure record.
C9_Witness ==
    \E r \in Reqs :
        /\ pc[r] = "server_error_middleware"
        /\ downstream[r] = Raise(ZeroDivisionError)
        /\ result[r] = Raise(ZeroDivisionError)
        /\ IsFailed(log[r][Len(log[r])])

\* C10: every log record of a request (request logger, handler, exception
\* handlers) is emitted after the request's bind_context_vars and before its
\* clear_context_vars.
C10_LogsInsideBindClearWindow ==
    [][\A r \in Reqs : log'[r] # log[r] => (binds[r] = 1 /\ clears[r] = 0)]_vars

\* The envelope of the exception handlers for request r
Envelope(r, detail) ==
    [detail |-> detail,
     correlation_id |-> state[r].correlation_id,
     request_id |-> state[r].request_id]

\* Reportable errors the handlers of the service raise
ReportableErrors ==
    {HTTPException(400, "Invalid item ID"), HTTPException(401, "Invalid or missing API key"),
     HTTPException(404, "Task not found"), RequestValidationError}

\* The status a reportable error is answered with
ReportedStatus(e) == IF e.type = "RequestValidationError" THEN 422 ELSE e.status_code

\* C11: a reportable error raised below ExceptionMiddleware (an HTTPException with
\* status s and detail d, or a request-validation failure) is translated into a
\* response with status s (422 for the validation failure) whose body is
\* {detail: d, correlation_id, request_id} with the IDs resolved for the request,
\* whatever the status and the handler that raised it, and that status and body
\* are what the client receives.
C11_ReportableErrorEnvelope ==
    /\ [][\A r \in Reqs :
            (/\ pc[r] = "exception_middleware" /\ pc'[r] = "logging_exit"
             /\ result[r].kind = "raise" /\ IsHandledHTTP(result[r].exc)) =>
                result'[r] = Response(ReportedStatus(result[r].exc),
                                      Envelope(r, result[r].exc.detail))]_vars
    /\ [](\A r \in Reqs : \A e \in ReportableErrors :
            /\ IsHandledHTTP(e)
            /\ ExceptionHandlerResponse(e, state[r]) =
                   Response(ReportedStatus(e), Envelope(r, e.detail)))
    /\ [](\A r \in Reqs :
            (Answered(r) /\ downstream[r].kind = "response") =>
                /\ client[r].status_code = downstream[r].status_code
                /\ client[r].body = downstream[r].body)

\* Reached: one client answered 400 'Invalid item ID' with the ID it sent, another
\* answered 422.
C11_Witness ==
    \E r, q \in Reqs :
        /\ Answered(r) /\ client[r].status_code = 400
        /\ client[r].body = [detail |-> "Invalid item ID", correlation_id |-> "abc",
                             request_id |-> "xyz"]
        /\ Answered(q) /\ client[q].status_code = 422
        /\ client[q].body.detail = RequestValidationError.detail

\* Exceptions the stack has no reportable-error handler for
UnhandledExceptions == {ZeroDivisionError, UnicodeDecodeError}

\* C12: an exception other than a reportable error, raised below the request
\* logger, is answered with status 500 and the body {detail: 'Internal server
\* error', correlation_id, request_id} holding the request's resolved IDs; the body
\* is the same for every exception type and message, and the failure record
\* naming the exception's type is in the log before any response exists.
C12_Unhandled500Envelope ==
    \A r \in Reqs :
        /\ (LeftRequestLogging(r) /\ downstream[r].kind = "raise") =>
              /\ \E i \in DOMAIN log[r] :
                    /\ IsFailed(log[r][i])
                    /\ log[r][i].extra.exception_type = downstream[r].exc.type
              /\ pc[r] # "done" => ~Answered(r)
              /\ pc[r] = "done" =>
                    /\ Answered(r)
                    /\ client[r].status_code = 500
                    /\ client[r].body = Envelope(r, "Internal server error")
        /\ \A e \in UnhandledExceptions :
              /\ ~IsHandledHTTP(e) /\ IsException(e)
              /\ general_exception_handler(e, state[r]) =
                     Response(500, Envelope(r, "Internal server error"))

\* Reached: a client answered 500 for a handler that raised ZeroDivisionError.
C12_Witness ==
    \E r \in Reqs :
        /\ pc[r] = "done" /\ downstream[r] = Raise(ZeroDivisionError)
        /\ Answered(r) /\ client[r].status_code = 500
        /\ client[r].body.correlation_id = "abc"

\* C15: the two middlewares only observe and annotate: the response the client
\* receives has the status code, the body and the headers of the response
\* downstream handling produced, except for X-Process-Time (set by the request
\* logger) and X-Correlation-ID / X-Request-ID (set by the correlation middleware).
C15_MiddlewaresOnlyAnnotate ==
    \A r \in Reqs :
        /\ (LeftRequestLogging(r) /\ downstream[r].kind = "response") =>
              /\ result[r].kind = "response"
              /\ result[r].status_code = downstream[r].status_code
              /\ result[r].body = downstream[r].body
        /\ (Answered(r) /\ downstream[r].kind = "response") =>
              /\ client[r].status_code = downstream[r].status_code
              /\ client[r].body = downstream[r].body
              /\ client[r].headers =
                    [downstream[r].headers EXCEPT
                        !.XProcessTime = client[r].headers.XProcessTime,
                        !.XCorrelationID = state[r].correlation_id,
                        !.XRequestID = state[r].request_id]
              /\ client[r].headers.XProcessTime \in 0..MaxClock

\* Reached: a 200 response and a 400 envelope delivered with the three headers
\* added and nothing else changed.
C15_Witness ==
    \E r, q \in Reqs :
        /\ Answered(r) /\ downstream[r] = Response(200, [payload |-> r])
        /\ client[r].headers.XProcessTime = 1
        /\ client[r].headers.XCorrelationID = "abc"
        /\ Answered(q) /\ downstream[q].kind = "response"
        /\ downstream[q].status_code = 400
        /\ client[q].body = downstream[q].body

\* ------------------------------------------------ API key, headers_info (SpecAuth)
\* settings.api_key
ApiKey == "change-me"

\* What a client sends in Authorization and in X-API-Key
AuthorizationValues == {None, "Bearer s1", "Bearer s2"}
ApiKeyValues == {None, "", "change-me", "guess"}
\* The key-protected route and a route whose handler raises
AuthPaths == {"/v1/items", "/v1/examples/trigger-exception"}

\* (variant: headers_info tells whether the key is the configured one)
important_headers_checks_key(h) ==
    [Authorization |-> h.Authorization # None, XAPIKey |-> h.XAPIKey = ApiKey]

\* important_headers: presence flags of the two credentials (Accept and
\* Accept-Language, logged by value, are not varied here)
important_headers(h) ==
    [Authorization |-> h.Authorization # None, XAPIKey |-> h.XAPIKey # None]

\* request_data of dispatch with its headers_info
request_data(req, s) ==
    [path |-> req.path,
     correlation_id |-> StateGet(s, "correlation_id"),
     request_id |-> StateGet(s, "request_id"),
     headers_info |-> important_headers(req)]

\* APIKeyHeader(name="X-API-Key", auto_error=False): the header's value or None
api_key_header(req) == req.XAPIKey

\* (variant: any key that is present passes)
require_api_key_present(api_key) ==
    IF ~Truthy(api_key)
    THEN Raise(HTTPException(401, "Invalid or missing API key"))
    ELSE NoResult

\* require_api_key: raises the 401, or returns when the key is the configured one
require_api_key(api_key) ==
    IF ~Truthy(api_key) \/ api_key # ApiKey
    THEN Raise(HTTPException(401, "Invalid or missing API key"))
    ELSE NoResult

\* logger.warning("Invalid API key attempt", api_key_present=bool(api_key))
require_api_key_log(c, r, api_key) ==
    LogRecord(c, <<r, AppTask>>, "Invalid API key attempt",
              [api_key_present |-> Truthy(api_key)])

\* A request arrives on one of the two routes.
AuthReceive(r, path, a, k) ==
    /\ auth_pc[r] = "idle"
    /\ auth_request' = [auth_request EXCEPT ![r] =
                           [path |-> path, Authorization |-> a, XAPIKey |-> k]]
    /\ auth_pc' = [auth_pc EXCEPT ![r] = "logging"]
    /\ UNCHANGED <<auth_log, auth_response>>
    /\ UNCHANGED outsideAuth

\* RequestLoggingMiddleware.dispatch up to call_next: the start record.
AuthLoggingDispatch(r) ==
    /\ auth_pc[r] = "logging"
    /\ auth_log' = [auth_log EXCEPT ![r] =
                       Append(@, LogRecord(ctx, <<r, LoggingTask>>, "Request started",
                                           request_data(auth_request[r], state[r])))]
    /\ auth_pc' = [auth_pc EXCEPT ![r] = "handler"]
    /\ UNCHANGED <<auth_request, auth_response>>
    /\ UNCHANGED outsideAuth

\* GET /v1/items: the dependency require_api_key, then get_items; the 401 goes
\* through http_exception_handler.
AuthGetItems(r) ==
    /\ auth_pc[r] = "handler"
    /\ auth_request[r].path = "/v1/items"
    /\ LET api_key == api_key_header(auth_request[r])
           res == require_api_key(api_key)
       IN  IF res.kind = "raise"
           THEN /\ auth_log' = [auth_log EXCEPT ![r] =
                                   @ \o <<require_api_key_log(ctx, r, api_key),
                                          http_exception_handler_log(ctx, r, res.exc, state[r])>>]
                /\ auth_response' = [auth_response EXCEPT ![r] =
                                        http_exception_handler(res.exc, state[r])]
           ELSE /\ auth_response' = [auth_response EXCEPT ![r] =
                                        Response(200, [items |-> <<"item1", "item2", "item3">>])]
                /\ UNCHANGED auth_log
    /\ auth_pc' = [auth_pc EXCEPT ![r] = "logging_exit"]
    /\ UNCHANGED auth_request
    /\ UNCHANGED outsideAuth

\* GET /v1/examples/trigger-exception: the handler raises ZeroDivisionError.
AuthTriggerException(r) ==
    /\ auth_pc[r] = "handler"
    /\ auth_request[r].path = "/v1/examples/trigger-exception"
    /\ auth_response' = [auth_response EXCEPT ![r] = Raise(ZeroDivisionError)]
    /\ auth_pc' = [auth_pc EXCEPT ![r] = "logging_exit"]
    /\ UNCHANGED <<auth_request, auth_log>>
    /\ UNCHANGED outsideAuth

\* RequestLoggingMiddleware.dispatch after call_next: completion or failure record.
AuthLoggingExit(r) ==
    /\ auth_pc[r] = "logging_exit"
    /\ auth_log' = [auth_log EXCEPT ![r] =
                       @ \o RequestLoggingRecords(ctx, r, auth_response[r], 0, state[r])]
    /\ auth_pc' = [auth_pc EXCEPT ![r] = "done"]
    /\ UNCHANGED <<auth_request, auth_response>>
    /\ UNCHANGED outsideAuth

NextAuth ==
    \/ \E r \in Reqs, path \in AuthPaths, a \in AuthorizationValues, k \in ApiKeyValues :
          AuthReceive(r, path, a, k)
    \/ \E r \in Reqs : AuthLoggingDispatch(r)
    \/ \E r \in Reqs : AuthGetItems(r)
    \/ \E r \in Reqs : AuthTriggerException(r)
    \/ \E r \in Reqs : AuthLoggingExit(r)

SpecAuth == Init /\ [][NextAuth]_authVars

\* The records RequestLoggingMiddleware itself emitted for request r
MiddlewareRecords(r) == SelectSeq(auth_log[r], LAMBDA rec : IsStart(rec) \/ IsEnd(rec))

\* Two answered requests that differ at most in the values of their Authorization
\* and X-API-Key headers, both present
DifferOnlyInSecrets(r, q) ==
    /\ r # q
    /\ auth_pc[r] = "done" /\ auth_pc[q] = "done"
    /\ auth_request[r].path = auth_request[q].path
    /\ auth_request[r].Authorization # None /\ auth_request[q].Authorization # None
    /\ auth_request[r].XAPIKey # None /\ auth_request[q].XAPIKey # None

\* C13 (as stated): two requests that differ only in the values of their present
\* Authorization and X-API-Key headers get identical start, completion and failure
\* records from the middleware.
C13_RecordsIndependentOfSecrets ==
    \A r, q \in Reqs :
        DifferOnlyInSecrets(r, q) => MiddlewareRecords(r) = MiddlewareRecords(q)

\* C13 (amended): such requests get identical start records, whose headers_info
\* holds presence flags only, and identical completion/failure records whenever
\* they were answered alike; the middleware's records differ at most by the status
\* code the request was answered with.
C13_RecordsDependOnOutcomeOnly ==
    \A r, q \in Reqs :
        DifferOnlyInSecrets(r, q) =>
            /\ Head(auth_log[r]) = Head(auth_log[q])
            /\ Head(auth_log[r]).extra.headers_info = [Authorization |-> TRUE, XAPIKey |-> TRUE]
            /\ Len(MiddlewareRecords(r)) = 2 /\ Len(MiddlewareRecords(q)) = 2
            /\ auth_response[r] = auth_response[q] =>
                  MiddlewareRecords(r) = MiddlewareRecords(q)
            /\ auth_response[r] # auth_response[q] =>
                  /\ IsCompleted(MiddlewareRecords(r)[2]) /\ IsCompleted(MiddlewareRecords(q)[2])
                  /\ {MiddlewareRecords(r)[2].extra.status_code,
                      MiddlewareRecords(q)[2].extra.status_code} = {200, 401}

\* Reached: GET /v1/items twice with different Authorization values, once with the
\* configured key and once with another: same start record, statuses 200 and 401.
C13_Witness ==
    \E r, q \in Reqs :
        /\ DifferOnlyInSecrets(r, q)
        /\ auth_request[r].Authorization # auth_request[q].Authorization
        /\ auth_request[r].XAPIKey = ApiKey /\ auth_request[q].XAPIKey = "guess"
        /\ auth_response[r].status_code = 200 /\ auth_response[q].status_code = 401
        /\ Head(auth_log[r]) = Head(auth_log[q])

\* The request of r went through GET /v1/items and its dependency
ItemsAnswered(r) ==
    /\ auth_pc[r] \in {"logging_exit", "done"}
    /\ auth_request[r].path = "/v1/items"

\* get_items ran for r: its items are the body of the answer
HandlerRan(r) ==
    /\ auth_response[r].kind = "response"
    /\ auth_response[r].status_code = 200
    /\ auth_response[r].body = [items |-> <<"item1", "item2", "item3">>]

\* C29: a request to GET /v1/items reaches the handler if and only if its
\* X-API-Key header is present, non-empty and equal to settings.api_key; every
\* other request (header missing, empty or different) is answered 401
\* 'Invalid or missing API key' and the handler is not run.
C29_HandlerIffConfiguredKey ==
    \A r \in Reqs :
        ItemsAnswered(r) =>
            IF /\ auth_request[r].XAPIKey # None
               /\ auth_request[r].XAPIKey # ""
               /\ auth_request[r].XAPIKey = ApiKey
            THEN HandlerRan(r)
            ELSE /\ ~HandlerRan(r)
                 /\ auth_response[r].kind = "response"
                 /\ auth_response[r].status_code = 401
                 /\ auth_response[r].body.detail = "Invalid or missing API key"

\* One request let through with the configured key, one refused with an empty key
C29_Witness ==
    \E r, q \in Reqs :
        /\ ItemsAnswered(r) /\ auth_request[r].XAPIKey = ApiKey /\ HandlerRan(r)
        /\ ItemsAnswered(q) /\ auth_request[q].XAPIKey = ""
        /\ auth_response[q].status_code = 401

\* ------------------------------------------------ elapsed time (SpecTime)
\* The clock is read in microseconds up to MaxMicros; a second has MicrosPerSecond
\* of them and a hundredth of a millisecond MicrosPerCentiMs.
MaxMicros == 30
MicrosPerSecond == 1000000
MicrosPerCentiMs == 10

\* The six digits of a number of microseconds below one second
SixDigits(n) ==
    (IF n < 10 THEN "00000" ELSE IF n < 100 THEN "0000" ELSE IF n < 1000 THEN "000"
     ELSE IF n < 10000 THEN "00" ELSE IF n < 100000 THEN "0" ELSE "") \o ToString(n)

\* str(process_time): the decimal text of the seconds
StrSeconds(process_time) ==
    ToString(process_time \div MicrosPerSecond) \o "." \o
    SixDigits(process_time % MicrosPerSecond)

\* float(text): what a client parses out of X-Process-Time, in microseconds; -1
\* stands for a text that is no number of seconds
ParseSeconds(text) ==
    IF \E t \in 0..MaxMicros : StrSeconds(t) = text
    THEN CHOOSE t \in 0..MaxMicros : StrSeconds(t) = text
    ELSE -1

\* round(process_time * 1000, 2), in hundredths of a millisecond: the nearest
\* hundredth; where the decimal value lies halfway the binary float lies on
\* either side of it, so either neighbour can come out
RoundMs2(process_time) ==
    LET q == process_time \div MicrosPerCentiMs
        rem == process_time % MicrosPerCentiMs
    IN  IF 2 * rem < MicrosPerCentiMs THEN {q}
        ELSE IF 2 * rem > MicrosPerCentiMs THEN {q + 1}
        ELSE {q, q + 1}

\* The clock advances.
TimeTick ==
    /\ perf_counter < MaxMicros
    /\ perf_counter' = perf_counter + 1
    /\ UNCHANGED <<time_pc, time_start, time_end, time_response, time_log>>
    /\ UNCHANGED outsideTime

\* dispatch reads start_time and calls call_next.
TimeDispatch ==
    /\ time_pc = "idle"
    /\ time_start' = perf_counter
    /\ time_pc' = "call_next"
    /\ UNCHANGED <<perf_counter, time_end, time_response, time_log>>
    /\ UNCHANGED outsideTime

\* call_next returns a response: the completion record, then X-Process-Time.
TimeReturn ==
    /\ time_pc = "call_next"
    /\ LET process_time == ProcessTime(perf_counter, time_start)
       IN  /\ time_end' = perf_counter
           /\ \E ms \in RoundMs2(process_time) :
                 time_log' = <<[event |-> "Request completed",
                                extra |-> [status_code |-> 200, process_time_ms |-> ms]]>>
           /\ time_response' = [Response(200, [payload |-> 1])
                                   EXCEPT !.headers.XProcessTime = StrSeconds(process_time)]
    /\ time_pc' = "done"
    /\ UNCHANGED <<perf_counter, time_start>>
    /\ UNCHANGED outsideTime

\* call_next raises: the failure record, no response.
TimeRaise ==
    /\ time_pc = "call_next"
    /\ LET process_time == ProcessTime(perf_counter, time_start)
       IN  /\ time_end' = perf_counter
           /\ \E ms \in RoundMs2(process_time) :
                 time_log' = <<[event |-> "Request failed with exception",
                                extra |-> [process_time_ms |-> ms,
                                           exception_type |-> ZeroDivisionError.type]]>>
           /\ time_response' = Reraise(Raise(ZeroDivisionError))
    /\ time_pc' = "done"
    /\ UNCHANGED <<perf_counter, time_start>>
    /\ UNCHANGED outsideTime

NextTime ==
    \/ TimeTick
    \/ TimeDispatch
    \/ TimeReturn
    \/ TimeRaise

SpecTime == Init /\ [][NextTime]_timeVars

\* C14: a response that returns normally through RequestLoggingMiddleware carries
\* X-Process-Time, whose value parses to the elapsed time (the reading at
\* completion minus the reading at the start, in seconds) and is not negative; the
\* completion record's process_time_ms is that elapsed time in milliseconds, to the
\* two decimals it is rounded to.
C14_ProcessTimeIsElapsed ==
    (time_pc = "done" /\ time_response.kind = "response") =>
        /\ time_response.headers.XProcessTime # None
        /\ ParseSeconds(time_response.headers.XProcessTime) = time_end - time_start
        /\ ParseSeconds(time_response.headers.XProcessTime) >= 0
        /\ Len(time_log) = 1 /\ IsCompleted(time_log[1])
        /\ LET ms == time_log[1].extra.process_time_ms
               elapsed == time_end - time_start
           IN  /\ ms >= 0
               /\ 2 * (ms * MicrosPerCentiMs - elapsed) <= MicrosPerCentiMs
               /\ 2 * (elapsed - ms * MicrosPerCentiMs) <= MicrosPerCentiMs

\* Reached: a request that started at 3 and completed at 20 microseconds: the
\* header reads 0.000017 s and the record 0.02 ms.
C14_Witness ==
    /\ time_pc = "done" /\ time_response.kind = "response"
    /\ time_start = 3 /\ time_end = 20
    /\ time_response.headers.XProcessTime = "0.000017"
    /\ time_log[1].extra.process_time_ms = 2

\* ------------------------------------------------ the item routes of main.py (SpecItems)
MaxItemId == 2
MaxPrice == 2
MaxTax == 2

\* Python truthiness of float | None: None and zero are false
TruthyNumber(v) == v # Nothing /\ v[1] # 0

\* item_id as FastAPI hands it to read_item: any integer
ItemIds == (0 - MaxItemId)..MaxItemId
\* q: absent, empty, a text
Queries == {None, "", "test"}
\* Item as pydantic validates it: tax absent or null is None
Items == [name : {"Test Item"}, description : {None}, price : 0..MaxPrice,
          tax : {Nothing} \cup {Some(t) : t \in 0..MaxTax}]

\* (variant: only negative identifiers are rejected)
read_item_rejects_negatives(item_id, q) ==
    IF item_id < 0 THEN Raise(HTTPException(400, "Invalid item ID"))
    ELSE Response(200, [item_id |-> item_id, q |-> q])

\* read_item
read_item(item_id, q) ==
    IF item_id < 1 THEN Raise(HTTPException(400, "Invalid item ID"))
    ELSE Response(200, [item_id |-> item_id, q |-> q])

\* item.model_dump()
model_dump(item) == item

\* create_item: `if item.tax:` adds price_with_tax
create_item(item) ==
    LET item_dict == model_dump(item)
    IN  IF TruthyNumber(item.tax)
        THEN Response(200, [name |-> item_dict.name, description |-> item_dict.description,
                            price |-> item_dict.price, tax |-> item_dict.tax,
                            price_with_tax |-> item.price + item.tax[1]])
        ELSE Response(200, item_dict)

\* What the client gets for a handler result: ExceptionMiddleware turns a
\* reportable error into its envelope.
ItemsAnswer(res, s) ==
    IF res.kind = "raise" THEN ExceptionHandlerResponse(res.exc, s) ELSE res

\* GET /items/{item_id}?q=... arrives.
ReadItemReceive(r, item_id, q) ==
    /\ items_pc[r] = "idle"
    /\ items_request' = [items_request EXCEPT ![r] =
                            [route |-> "read_item", item_id |-> item_id, q |-> q]]
    /\ items_pc' = [items_pc EXCEPT ![r] = "handler"]
    /\ UNCHANGED items_response
    /\ UNCHANGED outsideItems

\* POST /items/ arrives with a valid Item.
CreateItemReceive(r, item) ==
    /\ items_pc[r] = "idle"
    /\ items_request' = [items_request EXCEPT ![r] = [route |-> "create_item", item |-> item]]
    /\ items_pc' = [items_pc EXCEPT ![r] = "handler"]
    /\ UNCHANGED items_response
    /\ UNCHANGED outsideItems

\* read_item runs and the client is answered.
ReadItem(r) ==
    /\ items_pc[r] = "handler"
    /\ items_request[r].route = "read_item"
    /\ items_response' = [items_response EXCEPT ![r] =
          ItemsAnswer(read_item(items_request[r].item_id, items_request[r].q), state[r])]
    /\ items_pc' = [items_pc EXCEPT ![r] = "done"]
    /\ UNCHANGED items_request
    /\ UNCHANGED outsideItems

\* create_item runs and the client is answered.
CreateItem(r) ==
    /\ items_pc[r] = "handler"
    /\ items_request[r].route = "create_item"
    /\ items_response' = [items_response EXCEPT ![r] =
          ItemsAnswer(create_item(items_request[r].item), state[r])]
    /\ items_pc' = [items_pc EXCEPT ![r] = "done"]
    /\ UNCHANGED items_request
    /\ UNCHANGED outsideItems

NextItems ==
    \/ \E r \in Reqs, item_id \in ItemIds, q \in Queries : ReadItemReceive(r, item_id, q)
    \/ \E r \in Reqs, item \in Items : CreateItemReceive(r, item)
    \/ \E r \in Reqs : ReadItem(r)
    \/ \E r \in Reqs : CreateItem(r)

SpecItems == Init /\ [][NextItems]_itemsVars

ItemAnswered(r, route) == items_pc[r] = "done" /\ items_request[r].route = route

\* C16: GET /items/{item_id} answers 200 with {item_id, q} (q null when not
\* given) for every item_id >= 1, and 400 with detail 'Invalid item ID' for every
\* item_id < 1; each of several requests in flight is answered with its own
\* item_id.
C16_ReadItem ==
    \A r \in Reqs :
        ItemAnswered(r, "read_item") =>
            LET req == items_request[r]
                res == items_response[r]
            IN  /\ res.kind = "response"
                /\ req.item_id >= 1 =>
                      /\ res.status_code = 200
                      /\ res.body = [item_id |-> req.item_id, q |-> req.q]
                /\ req.item_id < 1 =>
                      /\ res.status_code = 400
                      /\ res.body.detail = "Invalid item ID"

\* Reached: item 0 refused and item 2 returned without q, two concurrent requests
\* each answered with its own identifier.
C16_Witness ==
    \E r, q \in Reqs :
        /\ ItemAnswered(r, "read_item") /\ items_request[r].item_id = 0
        /\ items_response[r].status_code = 400
        /\ ItemAnswered(q, "read_item") /\ items_request[q].item_id = 2
        /\ items_response[q].body = [item_id |-> 2, q |-> None]

\* C17: POST /items/ echoes the item's fields; when the item includes a tax value
\* the response also has price_with_tax = price + tax, and when it does not the
\* response has no price_with_tax key.
C17_CreateItemPriceWithTax ==
    \A r \in Reqs :
        ItemAnswered(r, "create_item") =>
            LET item == items_request[r].item
                body == items_response[r].body
            IN  /\ items_response[r].status_code = 200
                /\ \A f \in DOMAIN item : body[f] = item[f]
                /\ item.tax # Nothing =>
                      /\ "price_with_tax" \in DOMAIN body
                      /\ body.price_with_tax = item.price + item.tax[1]
                /\ item.tax = Nothing => "price_with_tax" \notin DOMAIN body

\* ------------------------------------------------ scheduled tasks and their listing (SpecPages)
MaxRows == 3
MaxNow == 1
MaxSize == 2
MaxPage == 3

Min(a, b) == IF a < b THEN a ELSE b
Max(a, b) == IF a > b THEN a ELSE b

\* retry_policy: the default of the schema, and one a client sends
DefaultRetryPolicy == [max_retries |-> 3, backoff |-> "exponential", initial_delay |-> 60]
RetryPolicies == {DefaultRetryPolicy, [max_retries |-> 0, backoff |-> "none", initial_delay |-> 0]}

\* ScheduledTaskCreate as validated (description, schedule, config are carried
\* like name and are left out)
ScheduledTaskCreates ==
    [name : {"nightly"}, task_type : {"http"}, enabled : BOOLEAN, retry_policy : RetryPolicies]

\* ScheduledTask(**task.model_dump()), with the defaults of the table model, as
\* the INSERT stores it
ScheduledTask(id, task, now) ==
    [id |-> id, name |-> task.name, task_type |-> task.task_type, enabled |-> task.enabled,
     retry_policy |-> task.retry_policy,
     last_run_at |-> Nothing, next_run_at |-> Nothing,
     success_count |-> 0, failure_count |-> 0,
     created_at |-> now, updated_at |-> now]

\* The WHERE clauses of list_tasks: `enabled is not None`, `if task_type:`
TaskMatches(row, enabled, task_type) ==
    /\ enabled # Nothing => row.enabled = enabled[1]
    /\ Truthy(task_type) => row.task_type = task_type

Matching(rows, enabled, task_type) ==
    SelectSeq(rows, LAMBDA row : TaskMatches(row, enabled, task_type))

\* The orderings of 1..n
Orders(n) ==
    {p \in [1..n -> 1..n] : \A i, j \in 1..n : p[i] = p[j] => i = j}

\* (variant: a unique sort key, ORDER BY created_at DESC, id DESC)
OrderByCreatedAtDescIdDesc(rows) ==
    {[i \in 1..Len(rows) |-> rows[p[i]]] :
        p \in {q \in Orders(Len(rows)) :
                  \A i, j \in 1..Len(rows) :
                      i < j => \/ rows[q[i]].created_at > rows[q[j]].created_at
                               \/ /\ rows[q[i]].created_at = rows[q[j]].created_at
                                  /\ rows[q[i]].id > rows[q[j]].id}}

\* ORDER BY created_at DESC: the arrangements of the rows in which created_at never
\* increases.  Rows with equal created_at come in an order PostgreSQL chooses
\* query by query.
OrderByCreatedAtDesc(rows) ==
    {[i \in 1..Len(rows) |-> rows[p[i]]] :
        p \in {q \in Orders(Len(rows)) :
                  \A i, j \in 1..Len(rows) :
                      i < j => rows[q[i]].created_at >= rows[q[j]].created_at}}

\* OFFSET offset LIMIT limit
OffsetLimit(rows, offset, limit) == SubSeq(rows, offset + 1, Min(offset + limit, Len(rows)))

\* pages=(total + size - 1) // size
Pages(total, size) == (total + size - 1) \div size

\* The ScheduledTaskList values list_tasks can answer with
list_tasks(rows, enabled, task_type, page, size) ==
    LET matching == Matching(rows, enabled, task_type)
        total == Len(matching)
    IN  {[items |-> OffsetLimit(ordered, (page - 1) * size, size),
          total |-> total, page |-> page, size |-> size, pages |-> Pages(total, size)] :
            ordered \in OrderByCreatedAtDesc(matching)}

\* The page a client has just fetched joins those it fetched with the same query
\* since the last write.
SeePage(seen, query, page, items) ==
    LET old == IF seen.query = query THEN seen.pages ELSE <<>>
    IN  [query |-> query,
         pages |-> [k \in DOMAIN old \cup {page} |-> IF k = page THEN items ELSE old[k]]]

\* The clock advances.
NowTick ==
    /\ utcnow < MaxNow
    /\ utcnow' = utcnow + 1
    /\ UNCHANGED <<scheduled_tasks, task_id_seq, api_request, api_response, pages_seen>>
    /\ UNCHANGED outsideTasks

\* POST /tasks
create_task(task) ==
    /\ task_id_seq < MaxRows
    /\ LET db_task == ScheduledTask(task_id_seq + 1, task, utcnow)
       IN  /\ scheduled_tasks' = Append(scheduled_tasks, db_task)
           /\ api_response' = Response(201, db_task)
    /\ task_id_seq' = task_id_seq + 1
    /\ api_request' = [op |-> "create_task", task |-> task]
    /\ pages_seen' = NoPages
    /\ UNCHANGED utcnow
    /\ UNCHANGED outsideTasks

\* GET /tasks?enabled=..&task_type=..&page=..&size=..
ListTasks(enabled, task_type, page, size) ==
    /\ \E res \in list_tasks(scheduled_tasks, enabled, task_type, page, size) :
          /\ api_response' = Response(200, res)
          /\ pages_seen' = SeePage(pages_seen, <<enabled, task_type, size>>, page, res.items)
    /\ api_request' = [op |-> "list_tasks", enabled |-> enabled, task_type |-> task_type,
                       page |-> page, size |-> size]
    /\ UNCHANGED <<utcnow, scheduled_tasks, task_id_seq>>
    /\ UNCHANGED outsideTasks

\* Tasks created without a retry_policy: the schema's default_factory fills it in
DefaultTaskCreates == {task \in ScheduledTaskCreates : task.retry_policy = DefaultRetryPolicy}

\* The filters a client lists with
EnabledFilters == {Nothing, Some(TRUE), Some(FALSE)}
TaskTypeFilters == {None, "shell"}

NextPages ==
    \/ NowTick
    \/ \E task \in DefaultTaskCreates : create_task(task)
    \/ \E enabled \in EnabledFilters, task_type \in TaskTypeFilters,
          page \in 1..MaxPage, size \in 1..MaxSize :
          ListTasks(enabled, task_type, page, size)

SpecPages == Init /\ [][NextPages]_tasksVars

\* ceil(total / size)
Ceil(total, size) == CHOOSE n \in 0..total : n * size >= total /\ (n - 1) * size < total

\* The places (page, index) at which the pages fetched hold the row
PlacesOf(row, pages) ==
    {<<k, i>> \in UNION {{k} \X DOMAIN pages[k] : k \in DOMAIN pages} : pages[k][i].id = row.id}

\* C18: for page >= 1 and 1 <= size, with no write in between: total is the
\* number of rows matching the filters, pages = ceil(total / size) (0 for no row),
\* a page holds the rows at its positions of the filtered list in descending
\* creation order (at most size of them), and pages 1..pages together hold every
\* matching row exactly once.
C18_PaginationCoversOnce ==
    /\ api_request.op = "list_tasks" =>
          LET q == api_request
              res == api_response.body
              total == Len(Matching(scheduled_tasks, q.enabled, q.task_type))
          IN  /\ res.total = total
              /\ res.pages = Ceil(total, q.size)
              /\ total = 0 => res.pages = 0
              /\ Len(res.items) = Max(0, Min(q.size, total - (q.page - 1) * q.size))
              /\ \A i, j \in DOMAIN res.items :
                    i < j => res.items[i].created_at >= res.items[j].created_at
    /\ pages_seen.query # <<>> =>
          LET matching == Matching(scheduled_tasks, pages_seen.query[1], pages_seen.query[2])
              pages == Pages(Len(matching), pages_seen.query[3])
          IN  1..pages \subseteq DOMAIN pages_seen.pages =>
                  \A n \in DOMAIN matching :
                      Cardinality(PlacesOf(matching[n],
                                           [k \in 1..pages |-> pages_seen.pages[k]])) = 1

\* ------------------------------------------------ tasks, workflows, executions (SpecEngine)
MaxTasks == 1
MaxWorkflows == 2
MaxExecutions == 1

\* The envelope of a reportable error raised by a store handler (the request's
\* IDs are left out)
Answer(res) == ItemsAnswer(res, ContextDefault)

\* scalar_one_or_none() of SELECT ... WHERE id = :id
RowById(rows, id) == SelectSeq(rows, LAMBDA row : row.id = id)

\* The table without the row / with the row replaced
Delete(rows, id) == SelectSeq(rows, LAMBDA row : row.id # id)
Replace(rows, new) == [i \in DOMAIN rows |-> IF rows[i].id = new.id THEN new ELSE rows[i]]

\* NULL in a JSON column
SqlNull == [null |-> TRUE]

\* The fields of an update payload that hold None: unset, or sent as null
NoneFields(update, fields) == {f \in fields : update[f] = Nothing}

\* fields_set is pydantic's model_fields_set, the fields the client sent: a
\* field that holds a value was sent
Sent(update, fields) == \A f \in fields : update[f] # Nothing => f \in update.fields_set

\* The payloads that send no null
WithoutNulls(updates) ==
    {update \in updates : NoneFields(update, update.fields_set) = {}}

\* ScheduledTaskUpdate as validated: a field holds Nothing (None) when unset or
\* sent as null (name, description, task_type, schedule, config are set like
\* enabled and retry_policy and are left out)
ScheduledTaskPatches ==
    {task_update \in [enabled : {Nothing, Some(TRUE), Some(FALSE)},
                      retry_policy : {Nothing} \cup {Some(p) : p \in RetryPolicies},
                      fields_set : SUBSET {"enabled", "retry_policy"}] :
        Sent(task_update, {"enabled", "retry_policy"})}

ScheduledTaskUpdates == WithoutNulls(ScheduledTaskPatches)

\* The columns of scheduled_tasks declared without None: NOT NULL
ScheduledTaskNotNull == {"enabled"}

\* for field, value in task_update.model_dump(exclude_unset=True).items():
\*     setattr(task, field, value)
SetTaskFields(task, task_update) ==
    [task EXCEPT !.enabled = IF "enabled" \notin task_update.fields_set THEN @
                             ELSE IF task_update.enabled = Nothing THEN Nothing
                             ELSE task_update.enabled[1],
                 !.retry_policy = IF "retry_policy" \notin task_update.fields_set THEN @
                                  ELSE IF task_update.retry_policy = Nothing THEN SqlNull
                                  ELSE task_update.retry_policy[1]]

\* POST /tasks, at most MaxTasks of them
CreateTask(task) ==
    /\ task_id_seq < MaxTasks
    /\ create_task(task)

\* PATCH /tasks/{task_id}: the table and the response it leaves
update_task(rows, task_id, task_update) ==
    LET found == RowById(rows, task_id)
    IN  IF found = <<>>
        THEN [rows |-> rows,
              response |-> Answer(Raise(HTTPException(404, "Task not found")))]
        ELSE IF NoneFields(task_update, task_update.fields_set) \cap ScheduledTaskNotNull # {}
        THEN \* db.commit() raises, get_db rolls back
             [rows |-> rows,
              response |-> general_exception_handler(IntegrityError, ContextDefault)]
        ELSE [rows |-> Replace(rows, SetTaskFields(found[1], task_update)),
              response |->
                  IF SetTaskFields(found[1], task_update).retry_policy = SqlNull
                  THEN \* ScheduledTaskRead.retry_policy is a dict
                       general_exception_handler(ResponseValidationError, ContextDefault)
                  ELSE Response(200, SetTaskFields(found[1], task_update))]

UpdateTask(task_id, task_update) ==
    /\ LET res == update_task(scheduled_tasks, task_id, task_update)
       IN  /\ scheduled_tasks' = res.rows
           /\ api_response' = res.response
           /\ pages_seen' = IF res.rows = scheduled_tasks THEN pages_seen ELSE NoPages
    /\ api_request' = [op |-> "update_task", task_id |-> task_id, task_update |-> task_update]
    /\ UNCHANGED <<utcnow, task_id_seq>>
    /\ UNCHANGED outsideTasks

\* DELETE /tasks/{task_id}: the table and the response it leaves
delete_task(rows, task_id) ==
    LET found == RowById(rows, task_id)
    IN  IF found = <<>>
        THEN [rows |-> rows,
              response |-> Answer(Raise(HTTPException(404, "Task not found")))]
        ELSE [rows |-> Delete(rows, task_id),
              response |-> Response(204, [deleted |-> task_id])]

DeleteTask(task_id) ==
    /\ LET res == delete_task(scheduled_tasks, task_id)
       IN  /\ scheduled_tasks' = res.rows
           /\ api_response' = res.response
           /\ pages_seen' = IF res.response.status_code = 204 THEN NoPages ELSE pages_seen
    /\ api_request' = [op |-> "delete_task", task_id |-> task_id]
    /\ UNCHANGED <<utcnow, task_id_seq>>
    /\ UNCHANGED outsideTasks

\* A dict with string keys; {**a, **b}
EmptyDict == <<>>
Merge(a, b) == [k \in DOMAIN a \cup DOMAIN b |-> IF k \in DOMAIN b THEN b[k] ELSE a[k]]

DefaultWorkflowRetryPolicy == [max_retries |-> 3, backoff |-> "exponential"]
WorkflowRetryPolicies == {DefaultWorkflowRetryPolicy, [max_retries |-> 0, backoff |-> "none"]}

WorkflowNames == {"deploy", "backup"}

\* WorkflowCreate as validated (description, trigger_config, timeout_seconds,
\* created_by are carried like trigger_type and are left out)
WorkflowCreates ==
    [name : WorkflowNames, enabled : BOOLEAN, trigger_type : {"manual"},
     steps : {<<[action |-> "notify"]>>}, variables : {[env |-> "prod"]},
     retry_policy : WorkflowRetryPolicies]

\* Workflow(**workflow.model_dump()) as the INSERT stores it
Workflow(id, workflow, now) ==
    [id |-> id, name |-> workflow.name, enabled |-> workflow.enabled,
     trigger_type |-> workflow.trigger_type, steps |-> workflow.steps,
     variables |-> workflow.variables, retry_policy |-> workflow.retry_policy,
     created_at |-> now, updated_at |-> now]

\* WorkflowUpdate.model_dump(exclude_unset=True): Nothing is a field the client
\* did not send
WorkflowPatches ==
    {workflow_update \in [name : {Nothing} \cup {Some(name) : name \in WorkflowNames},
                          enabled : {Nothing, Some(TRUE)},
                          retry_policy : {Nothing} \cup {Some(p) : p \in WorkflowRetryPolicies},
                          fields_set : SUBSET {"name", "enabled", "retry_policy"}] :
        Sent(workflow_update, {"name", "enabled", "retry_policy"})}

WorkflowUpdates == WithoutNulls(WorkflowPatches)

\* The columns of workflows declared without None: NOT NULL
WorkflowNotNull == {"name", "enabled"}

SetWorkflowFields(workflow, workflow_update) ==
    [workflow EXCEPT
        !.name = IF "name" \notin workflow_update.fields_set THEN @
                 ELSE IF workflow_update.name = Nothing THEN None
                 ELSE workflow_update.name[1],
        !.enabled = IF "enabled" \notin workflow_update.fields_set THEN @
                    ELSE IF workflow_update.enabled = Nothing THEN Nothing
                    ELSE workflow_update.enabled[1],
        !.retry_policy = IF "retry_policy" \notin workflow_update.fields_set THEN @
                         ELSE IF workflow_update.retry_policy = Nothing THEN SqlNull
                         ELSE workflow_update.retry_policy[1]]

\* WorkflowExecutionCreate as validated
WorkflowExecutionCreates ==
    [workflow_id : 1..MaxWorkflows, trigger_source : {None},
     trigger_data : {Nothing, Some([env |-> "test"])}]

\* (variant: an engine that starts the execution at once)
WorkflowExecutionStarted(id, workflow_id, workflow, execution, now) ==
    [id |-> id, workflow_id |-> workflow_id, status |-> "running",
     trigger_source |-> execution.trigger_source, trigger_data |-> execution.trigger_data,
     started_at |-> now, current_step |-> 1, total_steps |-> Len(workflow.steps),
     step_results |-> <<[step |-> 1]>>,
     variables |-> Merge(workflow.variables,
                         IF execution.trigger_data # Nothing
                         THEN execution.trigger_data[1] ELSE EmptyDict)]

\* WorkflowExecution(**execution_data), with the defaults of the table model, as
\* the INSERT stores it
WorkflowExecution(id, workflow_id, workflow, execution, now) ==
    [id |-> id, workflow_id |-> workflow_id, status |-> "pending",
     trigger_source |-> execution.trigger_source, trigger_data |-> execution.trigger_data,
     started_at |-> now, current_step |-> 0, total_steps |-> Len(workflow.steps),
     step_results |-> <<>>,
     variables |-> Merge(workflow.variables,
                         IF execution.trigger_data # Nothing
                         THEN execution.trigger_data[1] ELSE EmptyDict)]

\* POST /workflows: the table and the response it leaves
create_workflow(rows, id_seq, workflow, now) ==
    LET existing == SelectSeq(rows, LAMBDA row : row.name = workflow.name)
        db_workflow == Workflow(id_seq + 1, workflow, now)
    IN  IF existing # <<>>
        THEN [rows |-> rows,
              response |-> Answer(Raise(HTTPException(400,
                                        "Workflow with this name already exists")))]
        ELSE [rows |-> Append(rows, db_workflow),
              response |-> Response(201, db_workflow)]

CreateWorkflow(workflow) ==
    /\ workflow_id_seq < MaxWorkflows
    /\ LET res == create_workflow(workflows, workflow_id_seq, workflow, utcnow)
       IN  /\ workflows' = res.rows
           /\ workflow_id_seq' = workflow_id_seq + Len(res.rows) - Len(workflows)
           /\ api_response' = res.response
    /\ api_request' = [op |-> "create_workflow", workflow |-> workflow]
    /\ UNCHANGED <<utcnow, scheduled_tasks, task_id_seq, pages_seen>>
    /\ UNCHANGED <<workflow_executions, workflow_execution_id_seq>>
    /\ UNCHANGED outsideStore

\* PATCH /workflows/{workflow_id}: the table and the response it leaves
update_workflow(rows, workflow_id, workflow_update) ==
    LET found == RowById(rows, workflow_id)
        name == IF workflow_update.name # Nothing THEN workflow_update.name[1] ELSE None
        existing == SelectSeq(rows, LAMBDA row : row.name = name)
    IN  IF found = <<>>
        THEN [rows |-> rows,
              response |-> Answer(Raise(HTTPException(404, "Workflow not found")))]
        ELSE IF Truthy(name) /\ name # found[1].name /\ existing # <<>>
        THEN [rows |-> rows,
              response |-> Answer(Raise(HTTPException(400,
                                        "Workflow with this name already exists")))]
        ELSE IF NoneFields(workflow_update, workflow_update.fields_set) \cap WorkflowNotNull # {}
        THEN \* db.commit() raises, get_db rolls back
             [rows |-> rows,
              response |-> general_exception_handler(IntegrityError, ContextDefault)]
        ELSE [rows |-> Replace(rows, SetWorkflowFields(found[1], workflow_update)),
              response |->
                  IF SetWorkflowFields(found[1], workflow_update).retry_policy = SqlNull
                  THEN \* WorkflowRead.retry_policy is a dict
                       general_exception_handler(ResponseValidationError, ContextDefault)
                  ELSE Response(200, SetWorkflowFields(found[1], workflow_update))]

UpdateWorkflow(workflow_id, workflow_update) ==
    /\ LET res == update_workflow(workflows, workflow_id, workflow_update)
       IN  /\ workflows' = res.rows
           /\ api_response' = res.response
    /\ api_request' = [op |-> "update_workflow", workflow_id |-> workflow_id,
                       workflow_update |-> workflow_update]
    /\ UNCHANGED <<utcnow, scheduled_tasks, task_id_seq, pages_seen>>
    /\ UNCHANGED <<workflow_id_seq, workflow_executions, workflow_execution_id_seq>>
    /\ UNCHANGED outsideStore

\* (variant: the execution is stored before the workflow is looked at)
workflows_create_execution_stores_first(rows, executions, id_seq, workflow_id, execution, now) ==
    LET found == RowById(rows, workflow_id)
        db_execution == [id |-> id_seq + 1, workflow_id |-> workflow_id]
    IN  IF found = <<>>
        THEN [rows |-> Append(executions, db_execution),
              response |-> Answer(Raise(HTTPException(404, "Workflow not found")))]
        ELSE IF ~found[1].enabled
        THEN [rows |-> Append(executions, db_execution),
              response |-> Answer(Raise(HTTPException(400, "Workflow is disabled")))]
        ELSE [rows |-> Append(executions, db_execution),
              response |-> Response(201, db_execution)]

\* POST /workflows/{workflow_id}/executions: the executions table and the
\* response it leaves
workflows_create_execution(rows, executions, id_seq, workflow_id, execution, now) ==
    LET found == RowById(rows, workflow_id)
        db_execution == WorkflowExecution(id_seq + 1, workflow_id, found[1], execution, now)
    IN  IF found = <<>>
        THEN [rows |-> executions,
              response |-> Answer(Raise(HTTPException(404, "Workflow not found")))]
        ELSE IF ~found[1].enabled
        THEN [rows |-> executions,
              response |-> Answer(Raise(HTTPException(400, "Workflow is disabled")))]
        ELSE [rows |-> Append(executions, db_execution),
              response |-> Response(201, db_execution)]

CreateExecution(workflow_id, execution) ==
    /\ workflow_execution_id_seq < MaxExecutions
    /\ LET res == workflows_create_execution(workflows, workflow_executions,
                                             workflow_execution_id_seq, workflow_id,
                                             execution, utcnow)
       IN  /\ workflow_executions' = res.rows
           /\ workflow_execution_id_seq' =
                  workflow_execution_id_seq + Len(res.rows) - Len(workflow_executions)
           /\ api_response' = res.response
    /\ api_request' = [op |-> "create_execution", workflow_id |-> workflow_id,
                       execution |-> execution]
    /\ UNCHANGED <<utcnow, scheduled_tasks, task_id_seq, pages_seen>>
    /\ UNCHANGED <<workflows, workflow_id_seq>>
    /\ UNCHANGED outsideStore

NextEngine ==
    \/ \E task \in ScheduledTaskCreates : CreateTask(task)
    \/ \E task_id \in 1..MaxTasks, task_update \in ScheduledTaskUpdates :
          UpdateTask(task_id, task_update)
    \/ \E task_id \in 1..MaxTasks : DeleteTask(task_id)
    \/ \E workflow \in WorkflowCreates : CreateWorkflow(workflow)
    \/ \E workflow_id \in 1..MaxWorkflows, workflow_update \in WorkflowUpdates :
          UpdateWorkflow(workflow_id, workflow_update)
    \/ \E workflow_id \in 1..MaxWorkflows, execution \in WorkflowExecutionCreates :
          CreateExecution(workflow_id, execution)

SpecEngine == Init /\ [][NextEngine]_<<tasksVars, workflowVars>>

\* The record with its retry_policy field, when it has one, set to p
WithRetryPolicy(rec, p) ==
    IF "retry_policy" \in DOMAIN rec THEN [rec EXCEPT !.retry_policy = p] ELSE rec

\* The update payload with the retry_policy it carries, when it carries one,
\* set to p
UpdateWithRetryPolicy(update, p) ==
    IF update.retry_policy # Nothing THEN [update EXCEPT !.retry_policy = Some(p)] ELSE update

\* The table with the retry_policy of every row set to p
RowsWithRetryPolicy(rows, p) == [i \in DOMAIN rows |-> WithRetryPolicy(rows[i], p)]

\* What an operation leaves, the retry_policy values aside
OutcomeWithRetryPolicy(res, p) ==
    [rows |-> RowsWithRetryPolicy(res.rows, p),
     status_code |-> res.response.status_code,
     body |-> WithRetryPolicy(res.response.body, p)]

\* The stored rows nobody has executed
NeverRun(task) ==
    /\ task.success_count = 0
    /\ task.failure_count = 0
    /\ task.last_run_at = Nothing
    /\ task.next_run_at = Nothing

NeverStarted(execution) ==
    /\ execution.status = "pending"
    /\ execution.current_step = 0
    /\ execution.step_results = <<>>

\* Every operation on tasks leaves the same outcome, retry_policy values
\* aside, whatever retry_policy the stored rows and the payload hold
TaskOutcomesIgnoreRetryPolicy ==
    \A p \in RetryPolicies, q \in RetryPolicies :
        LET rows == RowsWithRetryPolicy(scheduled_tasks, p)
            same(a, b) == OutcomeWithRetryPolicy(a, DefaultRetryPolicy)
                              = OutcomeWithRetryPolicy(b, DefaultRetryPolicy)
        IN  /\ \A task \in ScheduledTaskCreates :
                  WithRetryPolicy(ScheduledTask(task_id_seq + 1, WithRetryPolicy(task, q), utcnow),
                                  DefaultRetryPolicy)
                  = WithRetryPolicy(ScheduledTask(task_id_seq + 1, task, utcnow),
                                    DefaultRetryPolicy)
            /\ \A task_id \in 1..MaxTasks, task_update \in ScheduledTaskUpdates :
                  same(update_task(rows, task_id, UpdateWithRetryPolicy(task_update, q)),
                       update_task(scheduled_tasks, task_id, task_update))
            /\ \A task_id \in 1..MaxTasks :
                  same(delete_task(rows, task_id), delete_task(scheduled_tasks, task_id))

\* The same for the operations on workflows and their executions
WorkflowOutcomesIgnoreRetryPolicy ==
    \A p \in WorkflowRetryPolicies, q \in WorkflowRetryPolicies :
        LET rows == RowsWithRetryPolicy(workflows, p)
            same(a, b) == OutcomeWithRetryPolicy(a, DefaultWorkflowRetryPolicy)
                              = OutcomeWithRetryPolicy(b, DefaultWorkflowRetryPolicy)
        IN  /\ \A workflow \in WorkflowCreates :
                  same(create_workflow(rows, workflow_id_seq, WithRetryPolicy(workflow, q), utcnow),
                       create_workflow(workflows, workflow_id_seq, workflow, utcnow))
            /\ \A workflow_id \in 1..MaxWorkflows, workflow_update \in WorkflowUpdates :
                  same(update_workflow(rows, workflow_id,
                                       UpdateWithRetryPolicy(workflow_update, q)),
                       update_workflow(workflows, workflow_id, workflow_update))
            /\ \A workflow_id \in 1..MaxWorkflows, execution \in WorkflowExecutionCreates :
                  same(workflows_create_execution(rows, workflow_executions,
                                                  workflow_execution_id_seq, workflow_id,
                                                  execution, utcnow),
                       workflows_create_execution(workflows, workflow_executions,
                                                  workflow_execution_id_seq, workflow_id,
                                                  execution, utcnow))

MaxWebhooks == 2

\* The bodies a sender posts: the bytes, as text when they are UTF-8
Bytes(text) == [utf8 |-> TRUE, text |-> text]
NotUtf8 == [utf8 |-> FALSE, text |-> "\\xff"]
Bodies ==
    {Bytes("{\"event\": \"push\"}"), Bytes("[1, 2]"), Bytes("5"), Bytes("\"ping\""),
     Bytes("null"), Bytes("ping"), Bytes(""), NotUtf8}

Sources == {"github", "stripe"}

\* A value of json.loads, with its Python type
JsonValue(type, value) == [type |-> type, value |-> value]
JsonNone == JsonValue("NoneType", None)

\* json.loads(body): the parsed value, or the exception it raises
json_loads(body) ==
    IF ~body.utf8 THEN Raise(UnicodeDecodeError)
    ELSE IF body.text = "{\"event\": \"push\"}"
    THEN Response(0, JsonValue("dict", [event |-> "push"]))
    ELSE IF body.text = "[1, 2]" THEN Response(0, JsonValue("list", <<1, 2>>))
    ELSE IF body.text = "5" THEN Response(0, JsonValue("int", 5))
    ELSE IF body.text = "\"ping\"" THEN Response(0, JsonValue("str", "ping"))
    ELSE IF body.text = "null" THEN Response(0, JsonNone)
    ELSE Raise([type |-> "JSONDecodeError", status_code |-> 0, detail |-> "Expecting value"])

\* bytes.decode("utf-8")
decode(body) == IF body.utf8 THEN Response(0, body.text) ELSE Raise(UnicodeDecodeError)

\* (variant: a schema whose body field takes any JSON value)
WebhookInboxCreateAnyBody(source, body, raw_body) ==
    Response(0, [source |-> source, body |-> body, raw_body |-> raw_body])

\* WebhookInboxCreate(source=.., body=.., raw_body=..): body is
\* dict[str, Any] | None (method, path, headers, query_params, ip_address,
\* user_agent are carried like source and are left out)
WebhookInboxCreate(source, body, raw_body) ==
    IF body.type \in {"dict", "NoneType"}
    THEN Response(0, [source |-> source, body |-> body, raw_body |-> raw_body])
    ELSE Raise(ValidationError)

\* WebhookInbox(**webhook_data.model_dump()), with the defaults of the table
\* model, as the INSERT stores it
WebhookInbox(id, webhook_data, now) ==
    [id |-> id, source |-> webhook_data.source, body |-> webhook_data.body,
     raw_body |-> webhook_data.raw_body, status |-> "received",
     processed_at |-> Nothing, error_message |-> None, created_at |-> now]

\* POST /webhooks/inbox/{source}: the table and the response it leaves. An
\* exception that is not an HTTPException leaves through get_db, which rolls
\* back, and is answered by general_exception_handler.
receive_webhook(rows, id_seq, source, request_body, now) ==
    LET parsed == json_loads(request_body)
        raw == IF parsed.kind = "raise" THEN decode(request_body) ELSE NoResult
        body == IF parsed.kind = "raise" THEN JsonNone ELSE parsed.body
        raw_body == IF raw.kind = "response" THEN raw.body ELSE None
        webhook_data == WebhookInboxCreate(source, body, raw_body)
        webhook == WebhookInbox(id_seq + 1, webhook_data.body, now)
    IN  IF raw.kind = "raise"
        THEN [rows |-> rows, response |-> general_exception_handler(raw.exc, ContextDefault)]
        ELSE IF webhook_data.kind = "raise"
        THEN [rows |-> rows,
              response |-> general_exception_handler(webhook_data.exc, ContextDefault)]
        ELSE [rows |-> Append(rows, webhook), response |-> Response(201, webhook)]

ReceiveWebhook(source, request_body) ==
    /\ webhook_id_seq < MaxWebhooks
    /\ LET res == receive_webhook(webhook_inbox, webhook_id_seq, source, request_body, utcnow)
       IN  /\ webhook_inbox' = res.rows
           /\ webhook_id_seq' = webhook_id_seq + Len(res.rows) - Len(webhook_inbox)
           /\ api_response' = res.response
    /\ api_request' = [op |-> "receive_webhook", source |-> source, body |-> request_body,
                       stored |-> Len(webhook_inbox)]
    /\ UNCHANGED <<utcnow, scheduled_tasks, task_id_seq, pages_seen>>
    /\ UNCHANGED outsideWebhooks

NextWebhooks ==
    \E source \in Sources, request_body \in Bodies : ReceiveWebhook(source, request_body)

SpecWebhooks == Init /\ [][NextWebhooks]_<<tasksVars, webhookVars>>

\* The request just answered was a POST /webhooks/inbox/{source}
WebhookAnswered == api_request.op = "receive_webhook"

\* C20: POST /webhooks/inbox/{source} captures every incoming request: whatever
\* the body (JSON object, other JSON value, non-JSON text, empty) the answer is
\* 201 and exactly one new record is stored, with status 'received', holding
\* the parsed body when the body is JSON and otherwise the raw text in raw_body.
C20_WebhookCapturesEveryBody ==
    WebhookAnswered /\ api_request.body.utf8 =>
        LET parsed == json_loads(api_request.body)
            last == webhook_inbox[Len(webhook_inbox)]
        IN  /\ api_response.status_code = 201
            /\ Len(webhook_inbox) = api_request.stored + 1
            /\ last.status = "received"
            /\ last.source = api_request.source
            /\ IF parsed.kind = "response"
               THEN last.body = parsed.body /\ last.raw_body = None
               ELSE last.body = JsonNone /\ last.raw_body = api_request.body.text

\* ---------------------------------------------------------------- PATCH updates (SpecPatch)
\* WebhookInboxUpdate as validated (processed_at is set like error_message and
\* is left out)
WebhookInboxPatches ==
    {webhook_update \in [status : {Nothing, Some("processed")},
                         error_message : {Nothing, Some("timeout")},
                         fields_set : SUBSET {"status", "error_message"}] :
        Sent(webhook_update, {"status", "error_message"})}

\* The columns of webhook_inbox declared without None: NOT NULL
WebhookInboxNotNull == {"status"}

\* for field, value in webhook_update.model_dump(exclude_unset=True).items():
\*     setattr(webhook, field, value)
SetWebhookFields(webhook, webhook_update) ==
    [webhook EXCEPT
        !.status = IF "status" \notin webhook_update.fields_set THEN @
                   ELSE IF webhook_update.status = Nothing THEN None
                   ELSE webhook_update.status[1],
        !.error_message = IF "error_message" \notin webhook_update.fields_set THEN @
                          ELSE IF webhook_update.error_message = Nothing THEN None
                          ELSE webhook_update.error_message[1]]

\* PATCH /webhooks/inbox/{webhook_id}: the table and the response it leaves
update_webhook(rows, webhook_id, webhook_update) ==
    LET found == RowById(rows, webhook_id)
    IN  IF found = <<>>
        THEN [rows |-> rows,
              response |-> Answer(Raise(HTTPException(404, "Webhook not found")))]
        ELSE IF NoneFields(webhook_update, webhook_update.fields_set) \cap WebhookInboxNotNull # {}
        THEN \* db.commit() raises, get_db rolls back
             [rows |-> rows,
              response |-> general_exception_handler(IntegrityError, ContextDefault)]
        ELSE [rows |-> Replace(rows, SetWebhookFields(found[1], webhook_update)),
              response |-> Response(200, SetWebhookFields(found[1], webhook_update))]

UpdateWebhook(webhook_id, webhook_update) ==
    /\ LET res == update_webhook(webhook_inbox, webhook_id, webhook_update)
       IN  /\ webhook_inbox' = res.rows
           /\ api_response' = res.response
    /\ api_request' = [op |-> "update_webhook", webhook_id |-> webhook_id,
                       webhook_update |-> webhook_update]
    /\ UNCHANGED <<utcnow, scheduled_tasks, task_id_seq, pages_seen, webhook_id_seq>>
    /\ UNCHANGED outsideWebhooks

\* The workflows created and the workflow payloads sent here
EnabledWorkflowCreates ==
    {workflow \in WorkflowCreates :
        workflow.enabled /\ workflow.retry_policy = DefaultWorkflowRetryPolicy}
WorkflowRenames ==
    {workflow_update \in WorkflowPatches : "retry_policy" \notin workflow_update.fields_set}

NextPatch ==
    \/ \E task \in DefaultTaskCreates : CreateTask(task)
    \/ \E task_id \in 1..MaxTasks, task_update \in ScheduledTaskPatches :
          UpdateTask(task_id, task_update)
    \/ \E workflow \in EnabledWorkflowCreates : CreateWorkflow(workflow)
    \/ \E workflow_id \in 1..MaxWorkflows, workflow_update \in WorkflowRenames :
          UpdateWorkflow(workflow_id, workflow_update)
    \/ ReceiveWebhook("github", Bytes("ping"))
    \/ \E webhook_id \in 1..MaxWebhooks, webhook_update \in WebhookInboxPatches :
          UpdateWebhook(webhook_id, webhook_update)

SpecPatch == Init /\ [][NextPatch]_<<tasksVars, workflowVars, webhookVars>>

\* The value NULL takes in each column
NullOf ==
    [name |-> None, enabled |-> Nothing, retry_policy |-> SqlNull,
     status |-> None, error_message |-> None]

\* What the claim requires of the table `after` that a PATCH of the row id
\* leaves: the fields sent hold the values sent (a NOT NULL column holds no
\* null), every other field of the row and every other row are as in `before`
PatchedExactly(before, after, id, update, fields, not_null) ==
    LET old == RowById(before, id)[1]
        new == RowById(after, id)[1]
    IN  /\ Len(after) = Len(before)
        /\ \A i \in DOMAIN before : before[i].id # id => after[i] = before[i]
        /\ RowById(after, id) # <<>>
        /\ \A f \in fields \cap update.fields_set :
              IF update[f] = Nothing
              THEN f \notin not_null /\ new[f] = NullOf[f]
              ELSE new[f] = update[f][1]
        /\ \A f \in DOMAIN old \ update.fields_set : new[f] = old[f]

\* The rename of a workflow to the name of another stored workflow, which
\* update_workflow refuses with 400
RenameRefused(rows, workflow_id, workflow_update) ==
    /\ workflow_update.name # Nothing
    /\ \E i \in DOMAIN rows :
          rows[i].id # workflow_id /\ rows[i].name = workflow_update.name[1]

\* C23: a PATCH (update_task, update_workflow, update_webhook) on an existing
\* record changes exactly the fields present in the payload to the values given
\* and leaves every other field of the record (id, created_at, updated_at
\* included) and every other record unchanged. (A rename that update_workflow
\* refuses is left aside.)
C23_PatchChangesExactlyFieldsSent ==
    [][/\ (api_request'.op = "update_task"
           /\ RowById(scheduled_tasks, api_request'.task_id) # <<>>)
          => PatchedExactly(scheduled_tasks, scheduled_tasks', api_request'.task_id,
                            api_request'.task_update, {"enabled", "retry_policy"},
                            ScheduledTaskNotNull)
       /\ (api_request'.op = "update_workflow"
           /\ RowById(workflows, api_request'.workflow_id) # <<>>
           /\ ~RenameRefused(workflows, api_request'.workflow_id,
                             api_request'.workflow_update))
          => PatchedExactly(workflows, workflows', api_request'.workflow_id,
                            api_request'.workflow_update,
                            {"name", "enabled", "retry_policy"}, WorkflowNotNull)
       /\ (api_request'.op = "update_webhook"
           /\ RowById(webhook_inbox, api_request'.webhook_id) # <<>>)
          => PatchedExactly(webhook_inbox, webhook_inbox', api_request'.webhook_id,
                            api_request'.webhook_update, {"status", "error_message"},
                            WebhookInboxNotNull)
      ]_<<tasksVars, workflowVars, webhookVars>>

\* ---------------------------------------------------------------- executions (SpecExecutions)
\* TaskExecutionCreate as validated (input_data is carried like status and is
\* left out); the body names a task of its own
TaskExecutionCreates == [task_id : 1..(MaxTasks + 1), status : {"running"}]

\* (variant: the task_id of the body is kept)
TaskExecutionOfBody(id, task_id, execution, now) ==
    [id |-> id, task_id |-> execution.task_id, status |-> execution.status, started_at |-> now]

\* TaskExecution(**execution_data) with execution_data["task_id"] = task_id
TaskExecution(id, task_id, execution, now) ==
    [id |-> id, task_id |-> task_id, status |-> execution.status, started_at |-> now]

\* POST /tasks/{task_id}/executions: the executions table and the response it
\* leaves
tasks_create_execution(rows, executions, id_seq, task_id, execution, now) ==
    LET found == RowById(rows, task_id)
        db_execution == TaskExecution(id_seq + 1, task_id, execution, now)
    IN  IF found = <<>>
        THEN [rows |-> executions,
              response |-> Answer(Raise(HTTPException(404, "Task not found")))]
        ELSE [rows |-> Append(executions, db_execution),
              response |-> Response(201, db_execution)]

CreateTaskExecution(task_id, execution) ==
    /\ task_execution_id_seq < MaxExecutions
    /\ LET res == tasks_create_execution(scheduled_tasks, task_executions,
                                         task_execution_id_seq, task_id, execution, utcnow)
       IN  /\ task_executions' = res.rows
           /\ task_execution_id_seq' =
                  task_execution_id_seq + Len(res.rows) - Len(task_executions)
           /\ api_response' = res.response
    /\ api_request' = [op |-> "create_task_execution", task_id |-> task_id,
                       execution |-> execution]
    /\ UNCHANGED <<utcnow, scheduled_tasks, task_id_seq, pages_seen>>
    /\ UNCHANGED outsideExecutions

\* DELETE /workflows/{workflow_id}: the table and the response it leaves
delete_workflow(rows, workflow_id) ==
    LET found == RowById(rows, workflow_id)
    IN  IF found = <<>>
        THEN [rows |-> rows,
              response |-> Answer(Raise(HTTPException(404, "Workflow not found")))]
        ELSE [rows |-> Delete(rows, workflow_id),
              response |-> Response(204, [deleted |-> workflow_id])]

DeleteWorkflow(workflow_id) ==
    /\ LET res == delete_workflow(workflows, workflow_id)
       IN  /\ workflows' = res.rows
           /\ api_response' = res.response
    /\ api_request' = [op |-> "delete_workflow", workflow_id |-> workflow_id]
    /\ UNCHANGED <<utcnow, scheduled_tasks, task_id_seq, pages_seen>>
    /\ UNCHANGED <<workflow_id_seq, workflow_executions, workflow_execution_id_seq>>
    /\ UNCHANGED outsideStore

\* The workflows created here: with and without steps and variables
StepsWorkflowCreates ==
    {[workflow EXCEPT !.steps = steps, !.variables = variables] :
        workflow \in {w \in WorkflowCreates :
                          w.name = "deploy" /\ w.retry_policy = DefaultWorkflowRetryPolicy},
        steps \in {<<>>, <<[action |-> "notify"], [action |-> "archive"]>>},
        variables \in {EmptyDict, [env |-> "prod", region |-> "eu"]}}

NextExecutions ==
    \/ \E task \in DefaultTaskCreates : CreateTask(task)
    \/ \E task_id \in 1..MaxTasks : DeleteTask(task_id)
    \/ \E task_id \in 1..MaxTasks, execution \in TaskExecutionCreates :
          CreateTaskExecution(task_id, execution)
    \/ \E workflow \in StepsWorkflowCreates : CreateWorkflow(workflow)
    \/ \E workflow_id \in 1..MaxWorkflows : DeleteWorkflow(workflow_id)
    \/ \E workflow_id \in 1..MaxWorkflows, execution \in WorkflowExecutionCreates :
          CreateExecution(workflow_id, execution)

SpecExecutions == Init /\ [][NextExecutions]_<<tasksVars, workflowVars, executionVars>>

\* dict b laid over dict a, stated key by key
Overridden(a, b, merged) ==
    /\ DOMAIN merged = DOMAIN a \cup DOMAIN b
    /\ \A k \in DOMAIN b : merged[k] = b[k]
    /\ \A k \in DOMAIN a \ DOMAIN b : merged[k] = a[k]

\* trigger_data of a body as a dict ({} when absent)
TriggerData(execution) ==
    IF execution.trigger_data = Nothing THEN EmptyDict ELSE execution.trigger_data[1]

\* The step of POST /workflows/{workflow_id}/executions is as claimed
WorkflowExecutionStored(workflow_id, execution) ==
    LET found == RowById(workflows, workflow_id)
    IN  IF found = <<>>
        THEN api_response'.status_code = 404 /\ workflow_executions' = workflow_executions
        ELSE IF ~found[1].enabled
        THEN api_response'.status_code = 400 /\ workflow_executions' = workflow_executions
        ELSE /\ Len(workflow_executions') = Len(workflow_executions) + 1
             /\ SubSeq(workflow_executions', 1, Len(workflow_executions)) = workflow_executions
             /\ LET stored == workflow_executions'[Len(workflow_executions')]
                IN  /\ stored.workflow_id = workflow_id
                    /\ stored.total_steps = Len(found[1].steps)
                    /\ Overridden(found[1].variables, TriggerData(execution),
                                  stored.variables)

\* The step of POST /tasks/{task_id}/executions is as claimed
TaskExecutionStored(task_id) ==
    IF RowById(scheduled_tasks, task_id) = <<>>
    THEN api_response'.status_code = 404 /\ task_executions' = task_executions
    ELSE /\ Len(task_executions') = Len(task_executions) + 1
         /\ SubSeq(task_executions', 1, Len(task_executions)) = task_executions
         /\ task_executions'[Len(task_executions')].task_id = task_id

\* C25: POST /workflows/{workflow_id}/executions stores an execution only if the
\* workflow exists (otherwise 404) and is enabled (otherwise 400); the stored
\* execution has the path's workflow_id whatever the body says, total_steps
\* the number of steps of the workflow, and variables the workflow's variables
\* overridden key by key with trigger_data. POST /tasks/{task_id}/executions
\* stores an execution only for an existing task (otherwise 404), with the
\* path's task_id.
C25_ExecutionsStoredAsClaimed ==
    [][/\ api_request'.op = "create_execution"
          => WorkflowExecutionStored(api_request'.workflow_id, api_request'.execution)
       /\ api_request'.op = "create_task_execution"
          => TaskExecutionStored(api_request'.task_id)
      ]_<<tasksVars, workflowVars, executionVars>>

\* An execution stored under the path's id with a body naming another workflow,
\* trigger_data overriding one of the workflow's variables, next to a stored
\* execution of task 1
C25_Witness ==
    /\ api_request.op = "create_execution"
    /\ api_response.status_code = 201
    /\ api_request.execution.workflow_id # api_request.workflow_id
    /\ api_request.execution.trigger_data # Nothing
    /\ \E i \in DOMAIN workflow_executions :
          /\ workflow_executions[i].workflow_id = api_request.workflow_id
          /\ workflow_executions[i].total_steps = 2
          /\ workflow_executions[i].variables = [env |-> "test", region |-> "eu"]
    /\ \E i \in DOMAIN task_executions : task_executions[i].task_id = 1

\* The ids stored in a table
Ids(rows) == {rows[i].id : i \in DOMAIN rows}

\* C26: in every state reached by create, delete and create-execution
\* requests, each stored task execution's task_id is the id of a stored
\* scheduled task and each stored workflow execution's workflow_id is the id
\* of a stored workflow.
C26_ExecutionsReferToStoredParents ==
    /\ \A i \in DOMAIN task_executions :
          task_executions[i].task_id \in Ids(scheduled_tasks)
    /\ \A i \in DOMAIN workflow_executions :
          workflow_executions[i].workflow_id \in Ids(workflows)

\* ---------------------------------------------------------------- errors (SpecCrud)
\* GET /tasks/{task_id}: the table and the response it leaves
get_task(rows, task_id) ==
    LET found == RowById(rows, task_id)
    IN  IF found = <<>>
        THEN [rows |-> rows,
              response |-> Answer(Raise(HTTPException(404, "Task not found")))]
        ELSE [rows |-> rows, response |-> Response(200, found[1])]

GetTask(task_id) ==
    /\ LET res == get_task(scheduled_tasks, task_id)
       IN  /\ scheduled_tasks' = res.rows
           /\ api_response' = res.response
    /\ api_request' = [op |-> "get_task", task_id |-> task_id]
    /\ UNCHANGED <<utcnow, task_id_seq, pages_seen>>
    /\ UNCHANGED outsideTasks

\* GET /workflows/{workflow_id}: the table and the response it leaves
get_workflow(rows, workflow_id) ==
    LET found == RowById(rows, workflow_id)
    IN  IF found = <<>>
        THEN [rows |-> rows,
              response |-> Answer(Raise(HTTPException(404, "Workflow not found")))]
        ELSE [rows |-> rows, response |-> Response(200, found[1])]

GetWorkflow(workflow_id) ==
    /\ LET res == get_workflow(workflows, workflow_id)
       IN  /\ workflows' = res.rows
           /\ api_response' = res.response
    /\ api_request' = [op |-> "get_workflow", workflow_id |-> workflow_id]
    /\ UNCHANGED <<utcnow, scheduled_tasks, task_id_seq, pages_seen>>
    /\ UNCHANGED <<workflow_id_seq, workflow_executions, workflow_execution_id_seq>>
    /\ UNCHANGED outsideStore

\* The workflows created here: both names, enabled and disabled
NamedWorkflowCreates ==
    {workflow \in WorkflowCreates : workflow.retry_policy = DefaultWorkflowRetryPolicy}

\* The execution bodies sent here
TaskExecutionOfPath == {execution \in TaskExecutionCreates : execution.task_id = 1}
WorkflowExecutionOfPath ==
    {execution \in WorkflowExecutionCreates :
        execution.workflow_id = 1 /\ execution.trigger_data = Nothing}

NextCrud ==
    \/ \E task \in DefaultTaskCreates : CreateTask(task)
    \/ \E task_id \in 1..MaxTasks : GetTask(task_id)
    \/ \E task_id \in 1..MaxTasks, task_update \in ScheduledTaskUpdates :
          UpdateTask(task_id, task_update)
    \/ \E task_id \in 1..MaxTasks : DeleteTask(task_id)
    \/ \E task_id \in 1..MaxTasks, execution \in TaskExecutionOfPath :
          CreateTaskExecution(task_id, execution)
    \/ \E workflow \in NamedWorkflowCreates : CreateWorkflow(workflow)
    \/ \E workflow_id \in 1..MaxWorkflows : GetWorkflow(workflow_id)
    \/ \E workflow_id \in 1..MaxWorkflows, workflow_update \in WorkflowRenames :
          UpdateWorkflow(workflow_id, workflow_update)
    \/ \E workflow_id \in 1..MaxWorkflows : DeleteWorkflow(workflow_id)
    \/ \E workflow_id \in 1..MaxWorkflows, execution \in WorkflowExecutionOfPath :
          CreateExecution(workflow_id, execution)

SpecCrud == Init /\ [][NextCrud]_<<tasksVars, workflowVars, executionVars>>

\* Every table and sequence of the store
Stored ==
    <<scheduled_tasks, task_id_seq, task_executions, task_execution_id_seq,
      workflows, workflow_id_seq, workflow_executions, workflow_execution_id_seq>>

\* C27: a CRUD request answered with an error (404 for an unknown id on get,
\* update, delete or create-execution, 400 for a duplicate workflow name or a
\* disabled workflow) writes nothing: the stored records and all their fields
\* are the same before and after the request.
C27_ErrorsWriteNothing ==
    [][api_response'.status_code \in {400, 404} => Stored' = Stored
      ]_<<tasksVars, workflowVars, executionVars>>

\* A create-execution refused with 400 on a stored, disabled workflow
C27_Witness ==
    /\ api_request.op = "create_execution"
    /\ api_response.status_code = 400
    /\ \E i \in DOMAIN workflows :
          workflows[i].id = api_request.workflow_id /\ ~workflows[i].enabled

\* ---------------------------------------------------------------- sessions (SpecSession)
\* What a handler raises at the yield of get_db, and what the commit raises
StoreHandlerExceptions == {HTTPException(404, "Task not found"), ZeroDivisionError}
CommitExceptions == {IntegrityError}

\* async with SQLModelAsyncSession(engine) as session: ... yield session
OpenSession(r) ==
    /\ db_pc[r] = "idle"
    /\ db_session' = [db_session EXCEPT ![r] = "open"]
    /\ db_tx' = [db_tx EXCEPT ![r] = "active"]
    /\ db_pc' = [db_pc EXCEPT ![r] = "yield"]
    /\ UNCHANGED <<db_exc, db_raised, db_propagated>>
    /\ UNCHANGED outsideSession

\* The handler completes: get_db resumes after the yield
HandlerReturns(r) ==
    /\ db_pc[r] = "yield"
    /\ db_pc' = [db_pc EXCEPT ![r] = "commit"]
    /\ UNCHANGED <<db_session, db_tx, db_exc, db_raised, db_propagated>>
    /\ UNCHANGED outsideSession

\* The handler raises, or the request is cancelled: the exception is thrown
\* into get_db at the yield; except Exception takes it or not
HandlerRaises(r, e) ==
    /\ db_pc[r] = "yield"
    /\ db_exc' = [db_exc EXCEPT ![r] = Some(e)]
    /\ db_raised' = [db_raised EXCEPT ![r] = Some(e)]
    /\ db_pc' = [db_pc EXCEPT ![r] = IF IsException(e) THEN "except" ELSE "finally"]
    /\ UNCHANGED <<db_session, db_tx, db_propagated>>
    /\ UNCHANGED outsideSession

\* await session.commit()
Commit(r) ==
    /\ db_pc[r] = "commit"
    /\ db_tx' = [db_tx EXCEPT ![r] = "committed"]
    /\ db_pc' = [db_pc EXCEPT ![r] = "finally"]
    /\ UNCHANGED <<db_session, db_exc, db_raised, db_propagated>>
    /\ UNCHANGED outsideSession

\* await session.commit() raises
CommitRaises(r, e) ==
    /\ db_pc[r] = "commit"
    /\ db_exc' = [db_exc EXCEPT ![r] = Some(e)]
    /\ db_raised' = [db_raised EXCEPT ![r] = Some(e)]
    /\ db_pc' = [db_pc EXCEPT ![r] = "except"]
    /\ UNCHANGED <<db_session, db_tx, db_propagated>>
    /\ UNCHANGED outsideSession

\* (variant: except Exception: await session.rollback(), without the raise)
RollbackSwallows(r) ==
    /\ db_pc[r] = "except"
    /\ db_tx' = [db_tx EXCEPT ![r] = "rolled back"]
    /\ db_exc' = [db_exc EXCEPT ![r] = Nothing]
    /\ db_pc' = [db_pc EXCEPT ![r] = "finally"]
    /\ UNCHANGED <<db_session, db_raised, db_propagated>>
    /\ UNCHANGED outsideSession

\* except Exception: await session.rollback(); raise
Rollback(r) ==
    /\ db_pc[r] = "except"
    /\ db_tx' = [db_tx EXCEPT ![r] = "rolled back"]
    /\ db_pc' = [db_pc EXCEPT ![r] = "finally"]
    /\ UNCHANGED <<db_session, db_exc, db_raised, db_propagated>>
    /\ UNCHANGED outsideSession

\* finally: await session.close(); a transaction still in progress is rolled
\* back by the close
Close(r) ==
    /\ db_pc[r] = "finally"
    /\ db_session' = [db_session EXCEPT ![r] = "closed"]
    /\ db_tx' = [db_tx EXCEPT ![r] = IF @ = "active" THEN "rolled back" ELSE @]
    /\ db_pc' = [db_pc EXCEPT ![r] = "exit"]
    /\ UNCHANGED <<db_exc, db_raised, db_propagated>>
    /\ UNCHANGED outsideSession

\* The end of the async with block: the session's __aexit__ closes it (again)
\* and the exception in flight leaves get_db
ExitSession(r) ==
    /\ db_pc[r] = "exit"
    /\ db_session' = [db_session EXCEPT ![r] = "closed"]
    /\ db_propagated' = [db_propagated EXCEPT ![r] = db_exc[r]]
    /\ db_pc' = [db_pc EXCEPT ![r] = "done"]
    /\ UNCHANGED <<db_tx, db_exc, db_raised>>
    /\ UNCHANGED outsideSession

get_db(r) ==
    \/ OpenSession(r)
    \/ HandlerReturns(r)
    \/ \E e \in StoreHandlerExceptions \cup {CancelledError} : HandlerRaises(r, e)
    \/ Commit(r)
    \/ \E e \in CommitExceptions : CommitRaises(r, e)
    \/ Rollback(r)
    \/ Close(r)
    \/ ExitSession(r)

NextSession == \E r \in Reqs : get_db(r)

SpecSession == Init /\ [][NextSession]_sessionVars

\* The event loop resumes every coroutine that can go on
SpecSessionLive == SpecSession /\ \A r \in Reqs : WF_sessionVars(get_db(r))

\* The request of r has finished
Finished(r) == db_pc[r] = "done"

\* C28: for every request that uses get_db, the session is committed when the
\* handler completes without error, rolled back when the handler or the commit
\* raises, and closed on every exit path: no session is open once its request
\* has finished, every opened session is closed in the end, and the exception
\* raised leaves get_db unchanged after the rollback.
C28_SessionLifecycle ==
    /\ [](\A r \in Reqs :
            Finished(r) =>
                /\ db_session[r] = "closed"
                /\ db_raised[r] = Nothing => db_tx[r] = "committed"
                /\ db_raised[r] # Nothing =>
                      db_tx[r] = "rolled back" /\ db_propagated[r] = db_raised[r])
    /\ \A r \in Reqs : (db_session[r] = "open") ~> (db_session[r] = "closed")

\* One request finished after a refused commit, another after a clean one
C28_Witness ==
    \E r, q \in Reqs :
        /\ Finished(r) /\ db_raised[r] = Some(IntegrityError)
        /\ db_tx[r] = "rolled back" /\ db_session[r] = "closed"
        /\ Finished(q) /\ db_raised[q] = Nothing /\ db_tx[q] = "committed"

\* ---------------------------------------------------------------- API statistics (SpecStats)
MaxLogs == 3
MaxStatsNow == 3
\* timedelta(days=1), the clock counting half days
OneDay == 2

\* The requests api_logs holds rows of
LogSamples ==
    {[method |-> "GET", path |-> "/v1/items", status_code |-> 200, duration_ms |-> 10],
     [method |-> "GET", path |-> "/v1/items", status_code |-> 399, duration_ms |-> 20],
     [method |-> "GET", path |-> "/v1/tasks", status_code |-> 400, duration_ms |-> 5],
     [method |-> "POST", path |-> "/v1/tasks", status_code |-> 199, duration_ms |-> 30]}

\* APILog(...): created_at is datetime.utcnow() by default
APILog(api_log, now) ==
    [method |-> api_log.method, path |-> api_log.path, status_code |-> api_log.status_code,
     duration_ms |-> api_log.duration_ms, created_at |-> now]

\* start_date and end_date of the query string: absent or a datetime
StatsDates == {Nothing} \cup {Some(t) : t \in 0..MaxStatsNow}

\* The sum of the values of a dict
RECURSIVE SumOver(_, _)
SumOver(d, keys) ==
    IF keys = {} THEN 0
    ELSE LET k == CHOOSE x \in keys : TRUE IN d[k] + SumOver(d, keys \ {k})
SumValues(d) == SumOver(d, DOMAIN d)

\* sum(... for log in logs) over a list
RECURSIVE SumDuration(_)
SumDuration(logs) ==
    IF logs = <<>> THEN 0 ELSE Head(logs).duration_ms + SumDuration(Tail(logs))

\* round(num / den * scale, 2) in hundredths: the nearest hundredth; halfway
\* between two of them the float lies on either side
Round2(num, den, scale) ==
    LET q == (num * scale * 100) \div den
        rem == (num * scale * 100) % den
    IN  IF 2 * rem < den THEN {q}
        ELSE IF 2 * rem > den THEN {q + 1}
        ELSE {q, q + 1}

\* (variant: redirects do not count as successes)
Successful2xx(api_log) == 200 <= api_log.status_code /\ api_log.status_code < 300

\* 200 <= log.status_code < 400
Successful(api_log) == 200 <= api_log.status_code /\ api_log.status_code < 400

\* requests_by_x[log.x] = requests_by_x.get(log.x, 0) + 1 for every log
GroupCount(logs, field) ==
    [k \in {logs[i][field] : i \in DOMAIN logs} |->
        Cardinality({i \in DOMAIN logs : logs[i][field] = k})]

\* GET /api-logs/stats/summary: the answers it can give (success_rate and
\* average_duration_ms in hundredths)
get_api_stats(rows, start_date, end_date, now) ==
    LET end == IF end_date = Nothing THEN now ELSE end_date[1]
        start == IF start_date = Nothing THEN end - OneDay ELSE start_date[1]
        logs == SelectSeq(rows, LAMBDA api_log : api_log.created_at >= start /\ api_log.created_at <= end)
        total_requests == Len(logs)
        successful_requests == Len(SelectSeq(logs, Successful))
    IN  IF logs = <<>>
        THEN {Response(200, [total_requests |-> 0, success_rate |-> 0,
                             average_duration_ms |-> 0,
                             requests_by_status |-> EmptyDict,
                             requests_by_path |-> EmptyDict,
                             requests_by_method |-> EmptyDict])}
        ELSE {Response(200, [total_requests |-> total_requests,
                             success_rate |-> success_rate,
                             average_duration_ms |-> average_duration,
                             requests_by_status |-> GroupCount(logs, "status_code"),
                             requests_by_path |-> GroupCount(logs, "path"),
                             requests_by_method |-> GroupCount(logs, "method")]) :
                 success_rate \in Round2(successful_requests, total_requests, 100),
                 average_duration \in Round2(SumDuration(logs), total_requests, 1)}

\* The clock of the server advances by half a day
StatsTick ==
    /\ stats_utcnow < MaxStatsNow
    /\ stats_utcnow' = stats_utcnow + 1
    /\ UNCHANGED <<api_logs, stats_request, stats_response>>
    /\ UNCHANGED outsideStats

\* A row is written to api_logs
InsertLog(api_log) ==
    /\ Len(api_logs) < MaxLogs
    /\ api_logs' = Append(api_logs, APILog(api_log, stats_utcnow))
    /\ stats_request' = [op |-> "insert"]
    /\ stats_response' = NoResult
    /\ UNCHANGED stats_utcnow
    /\ UNCHANGED outsideStats

GetApiStats(start_date, end_date) ==
    /\ stats_request' = [op |-> "get_api_stats", start_date |-> start_date,
                         end_date |-> end_date, now |-> stats_utcnow]
    /\ stats_response' \in get_api_stats(api_logs, start_date, end_date, stats_utcnow)
    /\ UNCHANGED <<stats_utcnow, api_logs>>
    /\ UNCHANGED outsideStats

NextStats ==
    \/ StatsTick
    \/ \E api_log \in LogSamples : InsertLog(api_log)
    \/ \E start_date \in StatsDates, end_date \in StatsDates :
          GetApiStats(start_date, end_date)

SpecStats == Init /\ [][NextStats]_statsVars

\* The window a request asks for: [start_date, end_date], which default to the
\* 24 hours before end_date and to the time of the request
WindowEnd(request) ==
    IF request.end_date = Nothing THEN request.now ELSE request.end_date[1]
WindowStart(request) ==
    IF request.start_date = Nothing THEN WindowEnd(request) - OneDay
    ELSE request.start_date[1]
InWindow(request) ==
    {i \in DOMAIN api_logs :
        /\ WindowStart(request) <= api_logs[i].created_at
        /\ api_logs[i].created_at <= WindowEnd(request)}

\* The rate, in hundredths of a percent, is the percentage to the nearest hundredth
IsPercentage(rate, part, whole) ==
    /\ 2 * (rate * whole - 10000 * part) <= whole
    /\ 2 * (10000 * part - rate * whole) <= whole

\* C30: get_api_stats over the logs whose created_at lies in [start_date,
\* end_date] (by default the last 24 hours): total_requests is the number of
\* such logs; the counts of requests_by_status, of requests_by_path and of
\* requests_by_method each sum to total_requests; success_rate is the
\* percentage of those logs with 200 <= status_code < 400; and when the window
\* holds no log every figure is zero and every grouping empty.
C30_StatsOfWindow ==
    stats_request.op = "get_api_stats" =>
        LET stats == stats_response.body
            window == InWindow(stats_request)
            successes == {i \in window : api_logs[i].status_code \in 200..399}
        IN  /\ stats.total_requests = Cardinality(window)
            /\ SumValues(stats.requests_by_status) = stats.total_requests
            /\ SumValues(stats.requests_by_path) = stats.total_requests
            /\ SumValues(stats.requests_by_method) = stats.total_requests
            /\ window # {} =>
                  IsPercentage(stats.success_rate, Cardinality(successes),
                               Cardinality(window))
            /\ window = {} =>
                  /\ stats.success_rate = 0 /\ stats.average_duration_ms = 0
                  /\ DOMAIN stats.requests_by_status = {}
                  /\ DOMAIN stats.requests_by_path = {}
                  /\ DOMAIN stats.requests_by_method = {}

\* Statistics over the default window with a log left out of it: two of the
\* three logs counted, one of them a 399, the rate 50 %
C30_Witness ==
    /\ stats_request.op = "get_api_stats"
    /\ stats_request.start_date = Nothing /\ stats_request.end_date = Nothing
    /\ Len(api_logs) = 3
    /\ stats_response.body.total_requests = 2
    /\ stats_response.body.success_rate = 5000
    /\ \E i \in InWindow(stats_request) : api_logs[i].status_code = 399

\* ---------------------------------------------------------------- workflow names (SpecNames)
\* SELECT ... WHERE name = :name finds a committed row
NameExists(rows, name) == \E i \in DOMAIN rows : rows[i].name = name

\* The unique index on workflows.name (Field(unique=True)) refuses a row
\* named like another committed row
UniqueViolation(rows, id, name) ==
    \E i \in DOMAIN rows : rows[i].id # id /\ rows[i].name = name

\* The payloads that rename
Renames ==
    {workflow_update \in WorkflowPatches :
        workflow_update.fields_set = {"name"} /\ workflow_update.name # Nothing}

\* (variant: the commit answers a refused name like the name check does)
CommitRefusedAs400(e) ==
    Answer(Raise(HTTPException(400, "Workflow with this name already exists")))

\* The answer to a commit the database refused: the IntegrityError leaves
\* through get_db and is answered by general_exception_handler
CommitRefused(e) == general_exception_handler(e, ContextDefault)

\* create_workflow up to its commit: the name check against the committed rows
CreateWorkflowCheck(r, workflow) ==
    /\ wf_pc[r] = "idle"
    /\ wf_request' = [wf_request EXCEPT ![r] = [op |-> "create_workflow", name |-> workflow.name,
                                                workflow |-> workflow]]
    /\ IF NameExists(workflows, workflow.name)
       THEN /\ wf_response' = [wf_response EXCEPT ![r] =
                   Answer(Raise(HTTPException(400, "Workflow with this name already exists")))]
            /\ wf_pc' = [wf_pc EXCEPT ![r] = "done"]
       ELSE /\ wf_response' = [wf_response EXCEPT ![r] = NoResult]
            /\ wf_pc' = [wf_pc EXCEPT ![r] = "create_commit"]
    /\ UNCHANGED workflowVars
    /\ UNCHANGED outsideNames

\* db.add(db_workflow); await db.commit()
CreateWorkflowCommit(r) ==
    /\ wf_pc[r] = "create_commit"
    /\ workflow_id_seq < MaxWorkflows
    /\ LET db_workflow == Workflow(workflow_id_seq + 1, wf_request[r].workflow, utcnow)
       IN  IF UniqueViolation(workflows, db_workflow.id, db_workflow.name)
           THEN /\ wf_response' = [wf_response EXCEPT ![r] = CommitRefused(IntegrityError)]
                /\ UNCHANGED <<workflows, workflow_id_seq>>
           ELSE /\ workflows' = Append(workflows, db_workflow)
                /\ workflow_id_seq' = workflow_id_seq + 1
                /\ wf_response' = [wf_response EXCEPT ![r] = Response(201, db_workflow)]
    /\ wf_pc' = [wf_pc EXCEPT ![r] = "done"]
    /\ UNCHANGED <<wf_request, workflow_executions, workflow_execution_id_seq>>
    /\ UNCHANGED outsideNames

\* update_workflow up to its commit: the row is loaded and the new name checked
UpdateWorkflowCheck(r, workflow_id, workflow_update) ==
    /\ wf_pc[r] = "idle"
    /\ LET found == RowById(workflows, workflow_id)
           name == workflow_update.name[1]
       IN  /\ wf_request' = [wf_request EXCEPT ![r] =
                                [op |-> "update_workflow", name |-> name,
                                 workflow_id |-> workflow_id,
                                 workflow_update |-> workflow_update]]
           /\ IF found = <<>>
              THEN /\ wf_response' = [wf_response EXCEPT ![r] =
                          Answer(Raise(HTTPException(404, "Workflow not found")))]
                   /\ wf_pc' = [wf_pc EXCEPT ![r] = "done"]
              ELSE IF Truthy(name) /\ name # found[1].name /\ NameExists(workflows, name)
              THEN /\ wf_response' = [wf_response EXCEPT ![r] =
                          Answer(Raise(HTTPException(400,
                                       "Workflow with this name already exists")))]
                   /\ wf_pc' = [wf_pc EXCEPT ![r] = "done"]
              ELSE /\ wf_response' = [wf_response EXCEPT ![r] = NoResult]
                   /\ wf_pc' = [wf_pc EXCEPT ![r] = "update_commit"]
    /\ UNCHANGED workflowVars
    /\ UNCHANGED outsideNames

\* setattr(workflow, field, value); await db.commit(): the UPDATE of the fields set
UpdateWorkflowCommit(r) ==
    /\ wf_pc[r] = "update_commit"
    /\ LET found == RowById(workflows, wf_request[r].workflow_id)
           new == SetWorkflowFields(found[1], wf_request[r].workflow_update)
       IN  IF UniqueViolation(workflows, new.id, new.name)
           THEN /\ wf_response' = [wf_response EXCEPT ![r] = CommitRefused(IntegrityError)]
                /\ UNCHANGED workflows
           ELSE /\ workflows' = Replace(workflows, new)
                /\ wf_response' = [wf_response EXCEPT ![r] = Response(200, new)]
    /\ wf_pc' = [wf_pc EXCEPT ![r] = "done"]
    /\ UNCHANGED <<wf_request, workflow_id_seq, workflow_executions, workflow_execution_id_seq>>
    /\ UNCHANGED outsideNames

\* The connection serves its next request
NextRequest(r) ==
    /\ wf_pc[r] = "done"
    /\ wf_pc' = [wf_pc EXCEPT ![r] = "idle"]
    /\ wf_request' = [wf_request EXCEPT ![r] = [op |-> None]]
    /\ wf_response' = [wf_response EXCEPT ![r] = NoResult]
    /\ UNCHANGED workflowVars
    /\ UNCHANGED outsideNames

NextNames ==
    \E r \in Reqs :
        \/ \E workflow \in EnabledWorkflowCreates : CreateWorkflowCheck(r, workflow)
        \/ CreateWorkflowCommit(r)
        \/ \E workflow_id \in 1..MaxWorkflows, workflow_update \in Renames :
              UpdateWorkflowCheck(r, workflow_id, workflow_update)
        \/ UpdateWorkflowCommit(r)
        \/ NextRequest(r)

SpecNames == Init /\ [][NextNames]_<<workflowVars, namesVars>>

\* C24: workflow names are unique under concurrency. No two stored workflows
\* share a name, and in every interleaving of name checks and commits a request
\* that creates a workflow, or renames one, under a name another stored workflow
\* holds stores nothing and is answered 400 'Workflow with this name already
\* exists'; every other request to an existing workflow stores its workflow.
C24_NamesUniqueUnderConcurrency ==
    /\ \A i, j \in DOMAIN workflows :
          i # j => workflows[i].name # workflows[j].name
    /\ \A r \in Reqs :
          wf_pc[r] = "done" =>
              \/ wf_response[r].status_code \in {200, 201, 404}
              \/ wf_response[r] =
                     Answer(Raise(HTTPException(400, "Workflow with this name already exists")))

\* C22: the correlation_id and request_id that RequestLoggingMiddleware writes
\* into its start and failure records, read from request.state, equal the values
\* the ambient context holds when the record is emitted, for present, absent and
\* empty inbound X-Correlation-ID / X-Request-ID headers.
C22_StateIdsEqualAmbientIds ==
    \A r \in Reqs : \A i \in DOMAIN log[r] :
        IsStart(log[r][i]) \/ IsFailed(log[r][i]) =>
            /\ log[r][i].extra.correlation_id = log[r][i].correlation_id
            /\ log[r][i].extra.request_id = log[r][i].request_id

\* ---------------------------------------------------------------- logging setup (SpecLogging)
MaxRecords == 2

\* settings.environment, default "dev"
Environments == {"dev", "staging", "prod", "Production"}

\* str.lower()
lower(text) == IF text = "Production" THEN "production" ELSE text

Structured(env) == lower(env) \in {"production", "prod", "staging"}

\* The modules main.py imports (lines 4-15) before it calls setup_logging()
ImportedBeforeSetup == {"request_logging", "exception_handlers"}

\* Loguru's level numbers
LevelNo(level) == IF level = "DEBUG" THEN 10 ELSE 20
Levels == {"DEBUG", "INFO"}

Messages == {"Request started", "Unhandled exception occurred"}
LoggingContexts == [correlation_id : {None, "c1"}, request_id : {None, "r1"}]

\* The record of a log call: level, message and keyword arguments
Record(level, message, extra) == [level |-> level, message |-> message, extra |-> extra]

\* serialize_record: the structured record, with the IDs of the ambient context
serialize_record(record, context) ==
    [level |-> record.level, message |-> record.message,
     correlation_id |-> context.correlation_id, request_id |-> context.request_id,
     extra |-> record.extra]

\* format_record_dev: the line of development mode
format_record_dev(record, context) ==
    [level |-> record.level, message |-> record.message,
     correlation_id |-> IF Truthy(context.correlation_id) THEN context.correlation_id ELSE None,
     request_id |-> IF Truthy(context.request_id) THEN context.request_id ELSE None,
     extra |-> record.extra, colorize |-> TRUE]

\* The handlers setup_logging adds after logger.remove()
StructuredHandler ==
    [sink |-> "stdout", format |-> "{extra[serialized]}", serialize |-> TRUE, level |-> "INFO"]
DevHandler ==
    [sink |-> "stdout", format |-> "format_record_dev", serialize |-> FALSE, level |-> "DEBUG"]

\* logger.patch(lambda record: record.update({"extra": {"serialized": ...}})):
\* a new logger object; the one patched is left as it was
patch(lg) == [lg EXCEPT !.patcher = "serialize_record"]

\* (variant: the patcher is installed in the core every logger object shares)
PatchedSharedCore(lg, record, context) ==
    [record EXCEPT !.extra = [serialized |-> serialize_record(record, context)]]

\* The record after the patcher of the logger object it was emitted through
Patched(lg, record, context) ==
    IF lg.patcher = "serialize_record"
    THEN [record EXCEPT !.extra = [serialized |-> serialize_record(record, context)]]
    ELSE record

\* Handler.emit of Loguru for a handler on sys.stdout: nothing below the
\* handler's level; the format applied to the record, a KeyError of the format
\* being caught and reported on stderr; the text, wrapped when serialize is set
HandlerEmit(handler, record, context) ==
    IF LevelNo(record.level) < LevelNo(handler.level) THEN Nothing
    ELSE IF handler.format = "format_record_dev"
    THEN Some([text |-> format_record_dev(record, context)])
    ELSE IF "serialized" \notin DOMAIN record.extra THEN Nothing
    ELSE Some([text |-> record.extra.serialized, serialize |-> handler.serialize])

\* What one log call through the logger object lg writes to sys.stdout
Emitted(lg, hs, record, context) ==
    LET out == {HandlerEmit(h, Patched(lg, record, context), context) :
                   h \in {h \in hs : h.sink = "stdout"}} \ {Nothing}
    IN  IF out = {} THEN Nothing ELSE CHOOSE o \in out : TRUE

\* One line of the trace kept in stdout
Line(module, lg, hs, record, context) ==
    [module |-> module, record |-> record, context |-> context,
     out |-> Emitted(lg, hs, record, context)]

\* main.py lines 4-15: settings are read and the modules are imported, each
\* running its `logger = get_logger()`
ImportModules(env) ==
    /\ main_pc = "import"
    /\ environment' = env
    /\ module_logger' = [m \in Modules |->
                            IF m \in ImportedBeforeSetup THEN Some(logging_logger) ELSE Nothing]
    /\ main_pc' = "setup_logging"
    /\ UNCHANGED <<handlers, logging_logger, logging_context, stdout>>
    /\ UNCHANGED outsideLogging

\* main.py line 18: setup_logging()
setup_logging ==
    /\ main_pc = "setup_logging"
    /\ LET hs == IF Structured(environment) THEN {StructuredHandler} ELSE {DevHandler}
           lg == IF Structured(environment) THEN patch(logging_logger) ELSE logging_logger
       IN  /\ handlers' = hs
           /\ logging_logger' = lg
           /\ stdout' = Append(stdout,
                               Line("logging", lg, hs,
                                    Record("INFO", "Application started",
                                           [environment |-> lower(environment)]),
                                    logging_context))
    /\ main_pc' = "get_logger"
    /\ UNCHANGED <<environment, module_logger, logging_context>>
    /\ UNCHANGED outsideLogging

\* main.py line 19: logger = get_logger()
MainGetLogger ==
    /\ main_pc = "get_logger"
    /\ module_logger' = [module_logger EXCEPT !["main"] = Some(logging_logger)]
    /\ main_pc' = "serving"
    /\ UNCHANGED <<environment, handlers, logging_logger, logging_context, stdout>>
    /\ UNCHANGED outsideLogging

\* A request's IDs are bound to, or cleared from, the ambient context
SetLoggingContext(context) ==
    /\ main_pc = "serving"
    /\ context # logging_context
    /\ logging_context' = context
    /\ UNCHANGED <<environment, main_pc, handlers, logging_logger, module_logger, stdout>>
    /\ UNCHANGED outsideLogging

\* logger.info(...) / logger.debug(...) in a module, while a request is served
Log(module, level, message) ==
    /\ main_pc = "serving"
    /\ Len(stdout) <= MaxRecords
    /\ stdout' = Append(stdout,
                        Line(module, module_logger[module][1], handlers,
                             Record(level, message, EmptyDict), logging_context))
    /\ UNCHANGED <<environment, main_pc, handlers, logging_logger, module_logger,
                   logging_context>>
    /\ UNCHANGED outsideLogging

NextLogging ==
    \/ \E env \in Environments : ImportModules(env)
    \/ setup_logging
    \/ MainGetLogger
    \/ \E context \in LoggingContexts : SetLoggingContext(context)
    \/ \E module \in Modules, level \in Levels, message \in Messages :
          Log(module, level, message)

SpecLogging == Init /\ [][NextLogging]_loggingVars

\* C21: in structured mode every record (of level INFO or above) emitted through a logger object that
\* get_logger() returned, before setup_logging() ran or after, reaches stdout
\* as the structured record serialize_record builds, with the correlation_id
\* and request_id of the ambient context.
C21_EveryLoggerSerializes ==
    Structured(environment) =>
        \A i \in DOMAIN stdout :
            stdout[i].record.level = "INFO" =>
            stdout[i].out = Some([text |-> serialize_record(stdout[i].record, stdout[i].context),
                                  serialize |-> TRUE])

====
